---- MODULE Spec2Model ----
(***************************************************************************)
(* A model of the two replication notebooks of the repository:             *)
(*   - the discrete-choice notebook (Bruhin, Fehr and Schunk 2019), with   *)
(*     loglike_dummy, congradloglike and the two-session pipeline;         *)
(*   - the effort notebook (Augenblick and Rabin 2019), with negloglike,   *)
(*     gradcontr and its pipeline.                                         *)
(*                                                                         *)
(* Numbers.  A floating-point value is a record [c, n, d]: c = "fin" is    *)
(* the rational n/d (d > 0, lowest terms), c = "inf", "ninf", "nan" are    *)
(* the IEEE specials.  Arithmetic on finite values is exact; np.exp and    *)
(* np.log are taken to base 2 (utilities and log-likelihoods are measured  *)
(* in units of ln 2), np.exp overflows to +Inf above MaxExp and            *)
(* underflows to 0 below -ExpUnderflow, and np.log returns a whole number  *)
(* rounded away from zero, so that its sign is the sign of the real        *)
(* logarithm.                                                              *)
(*                                                                         *)
(* Specifications.  SpecLike is one evaluation of a likelihood function,   *)
(* SpecG one computation of the matrix G of gradient contributions,        *)
(* SpecRun one run of a notebook from its first cell to the cell that      *)
(* writes the table, and SpecAdj the adjustment factor as the number of    *)
(* observations grows.  The per-observation gradients, the vectors that    *)
(* the optimizers return with their success flag, and the Hessians are     *)
(* inputs of the model.  The input files of a run keep, after the filters, *)
(* more observations than there are parameters.                            *)
(***************************************************************************)
EXTENDS Integers, Sequences, FiniteSets, TLC

\* ------------------------------------------------------------------------
\* Bounds of the model
\* ------------------------------------------------------------------------

\* np.exp(x) is +Inf for x > MaxExp (709.78 in binary64).
MaxExp == 5

\* np.exp(x) is 0 for x < -ExpUnderflow (745.13 in binary64).
ExpUnderflow == 5

\* Largest number of observations in a likelihood batch.
MaxObs == 2

\* Largest number of observations in a computation of G.
MaxGradRows == 3

\* Largest number of rows of choices_exp1.csv and of choices_exp2.csv.
MaxChoiceRows == 10

\* Largest number of rows of decisions_data.dta.
MaxEffortRows == 15

\* Largest number of clusters for which the adjustment is followed.
MaxClusters == 6

\* Largest number of observations for which the adjustment is followed.
MaxN == 30

\* A factor is near 1 when it is within 1 / Tol of it.
Tol == 2

\* Largest number of cells executed one by one after a run has ended.
MaxByHand == 3

\* options={'maxiter': 1500} of the Nelder-Mead call, on the scale of the model.
maxiter == 3

\* ------------------------------------------------------------------------
\* Floating-point values
\* ------------------------------------------------------------------------

RECURSIVE GCD(_, _)
GCD(a, b) == IF b = 0 THEN a ELSE GCD(b, a % b)

Abs(a) == IF a < 0 THEN -a ELSE a

RECURSIVE Pow(_, _)
Pow(b, e) == IF e = 0 THEN 1 ELSE b * Pow(b, e - 1)

Fin(n, d) ==
  LET s == IF d < 0 THEN -1 ELSE 1
      g == GCD(Abs(n), Abs(d))
  IN  [c |-> "fin", n |-> (s * n) \div g, d |-> (s * d) \div g]

NaN == [c |-> "nan", n |-> 0, d |-> 1]

PInf == [c |-> "inf", n |-> 0, d |-> 1]

NInf == [c |-> "ninf", n |-> 0, d |-> 1]

Zero == Fin(0, 1)

One == Fin(1, 1)

IsFin(x) == x.c = "fin"

\* -1, 0, 1 for a finite or infinite value
Sign(x) ==
  CASE x.c = "inf" -> 1
    [] x.c = "ninf" -> -1
    [] x.c = "fin" -> (IF x.n > 0 THEN 1 ELSE IF x.n < 0 THEN -1 ELSE 0)
    [] OTHER -> 0

Signed(s) == IF s > 0 THEN PInf ELSE NInf

VNeg(x) ==
  CASE x.c = "fin" -> Fin(-x.n, x.d)
    [] x.c = "inf" -> NInf
    [] x.c = "ninf" -> PInf
    [] OTHER -> NaN

VAdd(x, y) ==
  CASE x.c = "nan" \/ y.c = "nan" -> NaN
    [] x.c = "fin" /\ y.c = "fin" -> Fin(x.n * y.d + y.n * x.d, x.d * y.d)
    [] x.c = "fin" -> y
    [] y.c = "fin" -> x
    [] x.c = y.c -> x
    [] OTHER -> NaN

VSub(x, y) == VAdd(x, VNeg(y))

VMul(x, y) ==
  CASE x.c = "nan" \/ y.c = "nan" -> NaN
    [] x.c = "fin" /\ y.c = "fin" -> Fin(x.n * y.n, x.d * y.d)
    [] Sign(x) = 0 \/ Sign(y) = 0 -> NaN
    [] OTHER -> Signed(Sign(x) * Sign(y))

VDiv(x, y) ==
  CASE x.c = "nan" \/ y.c = "nan" -> NaN
    [] x.c = "fin" /\ y.c = "fin" ->
         IF y.n # 0 THEN Fin(x.n * y.d, x.d * y.n)
         ELSE IF x.n = 0 THEN NaN
         ELSE Signed(Sign(x))
    [] x.c = "fin" -> Zero
    [] y.c = "fin" -> Signed(Sign(x) * (IF y.n < 0 THEN -1 ELSE 1))
    [] OTHER -> NaN

\* x ** y for an exponent y that is 0 or 1 (pow(x, 0) is 1 for every x, NaN
\* included)
VPow01(x, y) == IF y = 0 THEN One ELSE x

VLt(x, y) ==
  /\ x.c # "nan" /\ y.c # "nan"
  /\ CASE x.c = "fin" /\ y.c = "fin" -> x.n * y.d < y.n * x.d
       [] x.c = "ninf" -> y.c # "ninf"
       [] y.c = "inf" -> x.c # "inf"
       [] OTHER -> FALSE

VLe(x, y) == x.c # "nan" /\ y.c # "nan" /\ (x = y \/ VLt(x, y))

\* the floor of a finite value
Floor(x) == x.n \div x.d

\* np.exp
VExp(x) ==
  CASE x.c = "nan" -> NaN
    [] x.c = "inf" -> PInf
    [] x.c = "ninf" -> Zero
    [] OTHER ->
         LET k == Floor(x)
         IN  IF k > MaxExp THEN PInf
             ELSE IF k < -ExpUnderflow THEN Zero
             ELSE IF k >= 0 THEN Fin(Pow(2, k), 1)
             ELSE Fin(1, Pow(2, -k))

\* the least k >= 0 with 2^k * d >= n
RECURSIVE CeilLog2(_, _)
CeilLog2(n, d) == IF d >= n THEN 0 ELSE 1 + CeilLog2(n, 2 * d)

\* np.log
VLog(x) ==
  CASE x.c = "nan" \/ x.c = "ninf" -> NaN
    [] x.c = "inf" -> PInf
    [] x.n < 0 -> NaN
    [] x.n = 0 -> NInf
    [] x.n >= x.d -> Fin(CeilLog2(x.n, x.d), 1)
    [] OTHER -> Fin(-CeilLog2(x.d, x.n), 1)

\* np.sum of a sequence of values
RECURSIVE VSum(_)
VSum(s) == IF s = <<>> THEN Zero ELSE VAdd(VSum(SubSeq(s, 1, Len(s) - 1)), s[Len(s)])

\* the element of a one-element set; an operator that builds its result
\* as Once({e(x) : x \in {arg}}) evaluates its argument once
Once(S) == CHOOSE x \in S : TRUE

\* the increasing sequence of the elements of a finite set of numbers
RECURSIVE SortedSeq(_)
SortedSeq(S) ==
  IF S = {} THEN <<>>
  ELSE LET m == CHOOSE x \in S : \A y \in S : x <= y
       IN  <<m>> \o SortedSeq(S \ {m})

\* ------------------------------------------------------------------------
\* The discrete-choice likelihood
\* ------------------------------------------------------------------------

Int2V(k) == Fin(k, 1)

\* one row of indicators @ beta
Dot(ind, beta) ==
  ind[1] * beta[1] + ind[2] * beta[2] + ind[3] * beta[3] + ind[4] * beta[4]

\* sigma * ((1 - li) * self + li * other): the utility of one allocation
Utility(sigma, li, self, other) ==
  VMul(sigma, Int2V((1 - li) * self + li * other))

\* One element of probs: the likelihood of one observation.
DummyProb(v, y, self_x, other_x, self_y, other_y, ind_x, ind_y) ==
  LET beta == SubSeq(v, 1, Len(v) - 1)
      sigma == VExp(Int2V(v[Len(v)]))
      lli == Dot(ind_x, beta)
      rli == Dot(ind_y, beta)
      uleft == Utility(sigma, lli, self_x, other_x)
      uright == Utility(sigma, rli, self_y, other_y)
      den == VAdd(VExp(uleft), VExp(uright))
  IN  VMul(VPow01(VDiv(VExp(uleft), den), y),
           VPow01(VDiv(VExp(uright), den), 1 - y))

\* probs, over a batch of observations (a sequence of rows)
DummyProbs(v, rows) ==
  [i \in 1..Len(rows) |->
     DummyProb(v, rows[i].choice_x, rows[i].self_x, rows[i].other_x,
               rows[i].self_y, rows[i].other_y, rows[i].ix, rows[i].iy)]

VLogs(p) == [i \in 1..Len(p) |-> VLog(p[i])]

\* A faulty variant of NegSumLog: the sum of the logarithms, not negated.
SumLogNotNegated(p) == VSum(VLogs(p))

\* A faulty variant of NegSumLog: - np.mean(np.log(p)).
NegMeanLog(p) == VNeg(VDiv(VSum(VLogs(p)), Int2V(Len(p))))

\* - np.sum(np.log(p))
NegSumLog(p) == VNeg(VSum(VLogs(p)))

loglike_dummy(v, rows) == NegSumLog(DummyProbs(v, rows))

\* ------------------------------------------------------------------------
\* The effort likelihood
\* ------------------------------------------------------------------------

\* the largest r >= 0 with r^k <= x, for x >= 0
RECURSIVE RootFrom(_, _, _)
RootFrom(x, k, r) == IF Pow(r + 1, k) > x THEN r ELSE RootFrom(x, k, r + 1)

\* base ** (1 / (gamma - 1)) for a whole gamma >= 2, rounded down to a whole
\* number; a negative base with a fractional exponent is NaN
PowInv(base, gamma) ==
  IF gamma = 2 THEN Int2V(base)
  ELSE IF base < 0 THEN NaN
  ELSE Int2V(RootFrom(base, gamma - 1, 0))

\* predchoice of one observation
PredChoice(par, row) ==
  VSub(PowInv(par.phi * Pow(par.delta, row.netdistance) * Pow(par.beta, row.today)
                * Pow(par.betahat, row.prediction) * row.wage, par.gamma),
       Int2V(row.pb * par.alpha))

\* norm.pdf(x, loc, scale): peak 1/scale at the mean (scale is measured in
\* units of 1/sqrt(2 pi)), decaying as 2^-(z^2) and underflowing to 0
NormPdf(x, loc, scale) ==
  LET z == VDiv(VSub(x, loc), scale)
  IN  VDiv(VExp(VNeg(VMul(z, z))), scale)

\* norm.cdf(z): 1/2 at 0, 2^-(z^2) / 2 in the lower tail and its complement
\* in the upper tail; exactly 0 and exactly 1 once the tail underflows
NormCdf(z) ==
  LET tail == VDiv(VExp(VNeg(VMul(z, z))), Int2V(2))
  IN  CASE z.c = "nan" -> NaN
        [] z.c = "inf" -> One
        [] z.c = "ninf" -> Zero
        [] z.n <= 0 -> tail
        [] OTHER -> VSub(One, tail)

ind_effort10(row) == IF row.effort = 10 THEN 1 ELSE 0

\* A faulty variant of ind_effort110: the comparison turned around.
ind_effort110AtMost(row) == IF row.effort <= 110 THEN 1 ELSE 0

ind_effort110(row) == IF row.effort = 110 THEN 1 ELSE 0

\* One element of prob, before the clamp.
EffortProb(par, row) ==
  LET predchoice == PredChoice(par, row)
      z == VDiv(VSub(predchoice, Int2V(row.effort)), par.sigma)
      i10 == ind_effort10(row)
      i110 == ind_effort110(row)
  IN  VAdd(VAdd(VMul(Int2V(1 - i10 - i110),
                     NormPdf(Int2V(row.effort), predchoice, par.sigma)),
                VMul(Int2V(i10), VSub(One, NormCdf(z)))),
           VMul(Int2V(i110), NormCdf(z)))

EffortProbs(par, rows) == [i \in 1..Len(rows) |-> EffortProb(par, rows[i])]

\* 1E-4 and 1 - 1E-4
ClampLow == Fin(1, 10000)

ClampHigh == VSub(One, ClampLow)

\* A faulty variant of IndexWhere: range(1, len(prob)) instead of range(0, len(prob)).
IndexWhereFromOne(p, val) == SortedSeq({i \in 2..Len(p) : p[i] = val})

\* [i for i in range(0, len(prob)) if prob[i] == val]
IndexWhere(p, val) == SortedSeq({i \in 1..Len(p) : p[i] = val})

\* prob after "for i in idx: prob[i] = val"
RECURSIVE SetAll(_, _, _)
SetAll(p, idx, val) ==
  IF idx = <<>> THEN p
  ELSE SetAll([p EXCEPT ![Head(idx)] = val], Tail(idx), val)

\* prob as the logarithm sees it
Clamped(p) ==
  SetAll(SetAll(p, IndexWhere(p, Zero), ClampLow), IndexWhere(p, One), ClampHigh)

negloglike(par, rows) == NegSumLog(Clamped(EffortProbs(par, rows)))

\* ------------------------------------------------------------------------
\* The matrix G of gradient contributions
\* ------------------------------------------------------------------------

\* np.zeros((k, k))
Zeros(k) == [a \in 1..k |-> [b \in 1..k |-> 0]]

\* np.outer(g, h)
Outer(g, h) ==
  Once({[a \in 1..Len(x) |-> [b \in 1..Len(y) |-> x[a] * y[b]]] : x \in {g}, y \in {h}})

MatAdd(A, B) ==
  Once({[a \in 1..Len(X) |-> [b \in 1..Len(X[a]) |-> X[a][b] + Y[a][b]]] :
          X \in {A}, Y \in {B}})

VecAdd(g, h) == Once({[a \in 1..Len(x) |-> x[a] + y[a]] : x \in {g}, y \in {h}})

\* A faulty variant of ClusterOuter: the element-wise product g * g, which numpy
\* broadcasts over the rows of the matrix it is added to.
ClusterOuterElementwise(g) ==
  Once({[a \in 1..Len(x) |-> [b \in 1..Len(x) |-> x[b] * x[b]]] : x \in {g}})

\* A faulty variant of ClusterOuter: np.outer(gradsel, np.ones(k)).
ClusterOuterOneSided(g) ==
  Once({[a \in 1..Len(x) |-> [b \in 1..Len(x) |-> x[a]]] : x \in {g}})

\* np.outer(gradsel, gradsel) (np.outer(ind_grad, ind_grad) in gradcontr)
ClusterOuter(g) == Outer(g, g)

\* np.unique: the distinct values, sorted
Unique(s) == SortedSeq({s[m] : m \in 1..Len(s)})

\* A faulty variant of Sel: range(1, len(clusters)) instead of range(len(clusters)).
SelFromOne(clusters, id) == SortedSeq({m \in 2..Len(clusters) : clusters[m] = id})

\* sel = [m for m in range(len(clusters)) if clusters[m] == id], and the rows
\* that dg['wid'] == wid selects
Sel(clusters, id) == SortedSeq({m \in 1..Len(clusters) : clusters[m] = id})

\* np.sum(gradi[sel, :], axis=0) ([sum(i) for i in zip(*gradients)] in
\* gradcontr): the column sums of the selected rows
RECURSIVE SumRows(_, _, _)
SumRows(gradi, sel, k) ==
  IF sel = <<>> THEN [a \in 1..k |-> 0]
  ELSE VecAdd(SumRows(gradi, Tail(sel), k), gradi[Head(sel)])

\* the cluster loop from its i-th identifier on: lines 270-273 and 967-970
RECURSIVE ClusterLoop(_, _, _, _, _)
ClusterLoop(gradi, clusters, ids, i, acc) ==
  IF i > Len(ids) THEN acc
  ELSE ClusterLoop(gradi, clusters, ids, i + 1,
         MatAdd(acc, ClusterOuter(SumRows(gradi, Sel(clusters, ids[i]), Len(acc)))))

Column(dt, f) == [m \in 1..Len(dt) |-> dt[m][f]]

\* what congradloglike returns for the per-observation gradients gradi
CongradG(gradi, clusters) ==
  ClusterLoop(gradi, clusters, Unique(clusters), 1, Zeros(Len(gradi[1])))

\* A faulty variant of RowAt: the row counted from the end of the frame.
RowAtFromEnd(dt, j) == dt[Len(dt) - j]

\* the row of dt with index label j: dt[column][j]
RowAt(dt, j) == dt[CHOOSE m \in 1..Len(dt) : dt[m].label = j]

\* gradfun(parameters, *args_ind): the gradient of the one-row negative
\* log-likelihood, an input of the model carried by the row
gradfun(row) == row.g

\* what gradcontr returns
gradcontr(dt, k) ==
  LET grads == [m \in 1..Len(dt) |-> gradfun(RowAt(dt, m - 1))]
      wids == Column(dt, "wid")
  IN  ClusterLoop(grads, wids, Unique(wids), 1, Zeros(k))

\* ------------------------------------------------------------------------
\* The sandwich variance and the tests
\* ------------------------------------------------------------------------

\* A faulty variant of Adj: N / (N - K) for the degrees of freedom.
AdjDofOffByOne(N, K, J) == VMul(Fin(N, N - K), Fin(J, J - 1))

\* A faulty variant of Adj: without the factor for the clusters.
AdjDofOnly(N, K, J) == Fin(N - 1, N - K)

\* (N - 1) / (N - K) * J / (J - 1), for N # K and J # 1
Adj(N, K, J) == VMul(Fin(N - 1, N - K), Fin(J, J - 1))

\* The evaluation of the adjustment in Python: a division by zero raises
\* ZeroDivisionError, and N - K is divided by before J - 1.
AdjEval(N, K, J) ==
  IF N - K = 0 THEN [type |-> "ZeroDivisionError", at |-> "N-K", val |-> NaN]
  ELSE IF J - 1 = 0 THEN [type |-> "ZeroDivisionError", at |-> "J-1", val |-> NaN]
  ELSE [type |-> "none", at |-> "", val |-> Adj(N, K, J)]

NoError == [type |-> "none", at |-> ""]

Identity(k) == [a \in 1..k |-> [b \in 1..k |-> IF a = b THEN 1 ELSE 0]]

RECURSIVE DotN(_, _, _)
DotN(g, h, k) == IF k = 0 THEN 0 ELSE DotN(g, h, k - 1) + g[k] * h[k]

\* A @ B
MatMul(A, B) ==
  Once({[a \in 1..Len(X) |-> [b \in 1..Len(Y[1]) |->
          DotN(X[a], [c \in 1..Len(Y) |-> Y[c][b]], Len(Y))]] : X \in {A}, Y \in {B}})

\* the Hessians of the model: the identity, and the identity with the block
\* ((2, 1), (1, 1)) in its last two rows and columns
BlockHessian(k) ==
  [a \in 1..k |-> [b \in 1..k |->
     IF a = k - 1 /\ b = k - 1 THEN 2
     ELSE IF a >= k - 1 /\ b >= k - 1 THEN 1
     ELSE IF a = b THEN 1 ELSE 0]]

BlockInverse(k) ==
  [a \in 1..k |-> [b \in 1..k |->
     IF a = k /\ b = k THEN 2
     ELSE IF a = k - 1 /\ b = k - 1 THEN 1
     ELSE IF a >= k - 1 /\ b >= k - 1 THEN -1
     ELSE IF a = b THEN 1 ELSE 0]]

Hessians(k) == {Identity(k), BlockHessian(k)}

\* np.linalg.inv
MatInv(H) ==
  LET k == Len(H)
  IN  CHOOSE M \in {Identity(k), BlockInverse(k)} : MatMul(H, M) = Identity(k)

\* adj * (inv_hess @ G @ inv_hess)
Sandwich(adj, inv_hess, grad_contribution) ==
  Once({[a \in 1..Len(M) |-> [b \in 1..Len(M) |-> VMul(adj, Int2V(M[a][b]))]] :
          M \in {MatMul(MatMul(inv_hess, grad_contribution), inv_hess)}})

\* the largest r in lo..hi-1 with r * r <= x, by bisection
RECURSIVE SqrtIn(_, _, _)
SqrtIn(x, lo, hi) ==
  IF hi - lo <= 1 THEN lo
  ELSE LET mid == (lo + hi) \div 2
       IN  IF mid * mid <= x THEN SqrtIn(x, mid, hi) ELSE SqrtIn(x, lo, mid)

\* the largest r >= 0 with r * r <= x
ISqrt(x) == SqrtIn(x, 0, IF x < 46340 THEN x + 1 ELSE 46341)

\* A faulty variant of VAbs: the sign kept.
VAbsSigned(x) == x

\* np.sqrt: exact on the square of a rational, rounded down otherwise
VSqrt(x) ==
  CASE x.c = "nan" \/ x.c = "ninf" -> NaN
    [] x.c = "inf" -> PInf
    [] x.n < 0 -> NaN
    [] OTHER -> Fin(ISqrt(x.n * x.d), x.d)

\* np.abs
VAbs(x) == IF x.c = "ninf" THEN PInf ELSE IF x.c = "fin" /\ x.n < 0 THEN VNeg(x) ELSE x

\* np.sqrt(np.diag(varcov))
SqrtDiag(varcov) == Once({[a \in 1..Len(V) |-> VSqrt(V[a][a])] : V \in {varcov}})

\* A faulty variant of DeltaSe: the standard error of log sigma passed on.
DeltaSeDropped(v, se) == se

\* np.sqrt(np.exp(v)**2 * se**2): the delta method for sigma = exp(v)
DeltaSe(v, se) ==
  LET e == VExp(Int2V(v))
  IN  VSqrt(VMul(VMul(e, e), VMul(se, se)))

\* [*se[0:-1], delta-method standard error of sigma]
WithDelta(res, se) ==
  Once({[a \in 1..Len(x) |-> IF a < Len(x) THEN x[a] ELSE DeltaSe(res[Len(res)], x[a])] :
          x \in {se}})

\* [*res[0:-1], np.exp(res[-1])]
Results(res) ==
  [a \in 1..Len(res) |-> IF a < Len(res) THEN Int2V(res[a]) ELSE VExp(Int2V(res[a]))]

\* A faulty variant of TwoSided: the upper tail alone.
UpperTail(z) == VSub(One, NormCdf(z))

\* 2*(1-norm.cdf(z, 0, 1))
TwoSided(z) == VMul(Int2V(2), VSub(One, NormCdf(z)))

\* np.round(x, 3): to the nearest multiple of 1/1000, a tie to the even one
Round3(x) ==
  IF x.c # "fin" THEN x
  ELSE LET q == (x.n * 1000) \div x.d
           r == (x.n * 1000) % x.d
       IN  IF 2 * r < x.d THEN Fin(q, 1000)
           ELSE IF 2 * r > x.d THEN Fin(q + 1, 1000)
           ELSE Fin(q + (q % 2), 1000)

Round3All(s) == [a \in 1..Len(s) |-> Round3(s[a])]

\* ------------------------------------------------------------------------
\* Inputs of the likelihood evaluations
\* ------------------------------------------------------------------------

\* (self_x, other_x, self_y, other_y) of a game
PayoffSet == {<<3, 0, 1, 1>>, <<1, 2, 2, 1>>, <<0, 3, 3, 0>>}

\* (q, v): the reciprocity indicators of a game
RecipSet == {<<0, 0>>, <<1, 0>>}

Behind(self, other) == IF self < other THEN 1 ELSE 0

Ahead(self, other) == IF self > other THEN 1 ELSE 0

ChoiceRow(y, pay, qv) ==
  [choice_x |-> y, self_x |-> pay[1], other_x |-> pay[2],
   self_y |-> pay[3], other_y |-> pay[4],
   ix |-> <<Behind(pay[1], pay[2]), Ahead(pay[1], pay[2]), qv[1], qv[2]>>,
   iy |-> <<Behind(pay[3], pay[4]), Ahead(pay[3], pay[4]), qv[1], qv[2]>>]

ChoiceRows == {ChoiceRow(y, pay, qv) : y \in {0, 1}, pay \in PayoffSet, qv \in RecipSet}

\* (alpha, beta, gamma, delta, log sigma)
ChoiceParams ==
  {<<0, 0, 0, 0, 0>>, <<0, 1, 0, 0, 1>>, <<-1, 1, 0, 0, 2>>,
   <<0, 0, 1, -1, 2>>, <<1, 0, 0, 0, -1>>, <<0, 0, 0, 0, 3>>}

EffortRowOf(today, pb, effort) ==
  [netdistance |-> 2 * pb, wage |-> 1, today |-> today, prediction |-> 1 - today,
   pb |-> pb, effort |-> effort]

EffortRows == {EffortRowOf(t, b, e) : t \in {0, 1}, b \in {0, 1}, e \in {10, 16, 110}}

EffortPar(beta, betahat, delta, gamma, phi, alpha, sigma) ==
  [beta |-> beta, betahat |-> betahat, delta |-> delta, gamma |-> gamma,
   phi |-> phi, alpha |-> alpha, sigma |-> sigma]

EffortParams ==
  {EffortPar(1, 1, 1, 2, 16, 0, One), EffortPar(1, 1, 1, 2, 16, 6, Fin(1, 2)),
   EffortPar(2, 1, 1, 2, 8, 0, Fin(1, 2)), EffortPar(1, 1, 1, 3, 100, 0, Fin(4, 1)),
   EffortPar(1, 2, 2, 2, 4, 6, Fin(1, 2)), EffortPar(1, 1, 1, 2, 4, 0, Fin(1, 2)),
   EffortPar(1, 1, 1, 2, 110, 0, One), EffortPar(1, 1, 1, 3, 256, 0, Fin(4, 1))}

\* the sequences over S of length 1..n
SeqsUpTo(S, n) == UNION {[1..k -> S] : k \in 1..n}

\* per-observation gradients at the estimate
GradVecs == {<<1, 0, -1>>, <<-1, 2, 0>>, <<0, -1, 1>>}

\* subject identifiers
ClusterIds == {1, 2, 3}

\* the datasets of a computation of G: the index labels are 0..N-1
GradData ==
  {[m \in 1..Len(ids) |-> [label |-> m - 1, wid |-> ids[m], g |-> gs[m]]] :
     <<ids, gs>> \in UNION {[1..k -> ClusterIds] \X [1..k -> GradVecs] : k \in 1..MaxGradRows}}

\* ------------------------------------------------------------------------
\* Inputs of a run of a notebook
\* ------------------------------------------------------------------------

\* the gradient of the objective at observation m, a vector of length k
GradAt(m, k) == [a \in 1..k |-> ((m + a) % 3) - 1]

\* choices_exp1.csv, choices_exp2.csv: n rows of j subjects in turn, with
\* the choice and the indicator columns of each game
ChoiceFile(n, j) ==
  [m \in 1..n |->
     [label |-> m - 1, sid |-> 1 + ((m - 1) % j), choice_x |-> Int2V(m % 2),
      s_x |-> IF m % 3 = 0 THEN 1 ELSE 0, r_x |-> IF m % 3 = 1 THEN 1 ELSE 0,
      s_y |-> IF m % 3 = 1 THEN 1 ELSE 0, r_y |-> IF m % 3 = 0 THEN 1 ELSE 0,
      q |-> IF m % 4 = 0 THEN 1 ELSE 0, v |-> IF m % 4 = 2 THEN 1 ELSE 0,
      g |-> GradAt(m, 5)]]

ChoiceFiles == {ChoiceFile(n, j) : n \in 9..MaxChoiceRows, j \in 1..3}

\* the files of session 2
ChoiceFiles2 == {ChoiceFile(9, j) : j \in 1..3}

\* a file of session 1 in which the choice of one kept row is missing: the
\* cell is read as NaN
ChoiceFilesMissing ==
  {[ChoiceFile(MaxChoiceRows, 2) EXCEPT ![2].choice_x = NaN]}

\* dropped_subjects_section4paragraph2.csv: the column of ids
DropLists == {<<>>, <<3>>, <<7>>}

\* decisions_data.dta: n rows of j workers in turn; a bonus in every fifth row
EffortFile(n, j) ==
  [m \in 1..n |->
     [label |-> m - 1, wid |-> 1 + ((m - 1) % j),
      bonusoffered |-> IF m % 5 = 0 THEN 1 ELSE 0,
      workdone1 |-> IF m % 2 = 0 THEN 10 ELSE 0,
      effort |-> IF m % 3 = 0 THEN 10 ELSE IF m % 3 = 1 THEN 50 ELSE 110,
      wage |-> Int2V(1 + (m % 2)),
      g |-> GradAt(m, 7)]]

EffortFiles == {EffortFile(n, j) : n \in 14..MaxEffortRows, j \in 1..3}

\* a file in which the wage of one kept row is missing
EffortFilesMissing ==
  {[EffortFile(MaxEffortRows, 2) EXCEPT ![2].wage = NaN]}

\* ind_to_keep.csv: the column wid_col1
KeepLists == {<<1, 2, 3>>, <<1, 2>>}

\* the starting vectors v0 = [*beta_init, *sigma_init]
ChoiceStarts ==
  {<<Fin(1, 100), Fin(1, 100), Fin(2, 100), Fin(1, 100), Int2V(-3)>>,
   <<Fin(2, 100), Fin(1, 100), Fin(1, 100), Fin(2, 100), Int2V(-2)>>}

\* the vectors sol.x that BFGS may return
ChoiceEstimates == {<<0, 1, 0, 0, 1>>, <<1, 0, 0, -1, -1>>}

\* par_init
ParInit == <<Fin(4, 5), Int2V(1), Int2V(1), Int2V(2), Int2V(500), Int2V(7), Int2V(40)>>

\* the vectors sol.x that Nelder-Mead may return
EffortEstimates == {<<1, 1, 1, 2, 16, 6, 1>>, <<0, 2, 1, 3, 100, 0, 4>>}

Range(s) == {s[m] : m \in 1..Len(s)}

\* A faulty variant of Rows: the rows at which the mask holds, last one first
RECURSIVE RowsReversed(_, _, _)
RowsReversed(df, mask, m) ==
  IF m > Len(df) THEN <<>>
  ELSE RowsReversed(df, mask, m + 1) \o (IF mask[m] THEN <<df[m]>> ELSE <<>>)

\* df[mask] from row m on: the rows of df at which the mask holds, in order,
\* with their labels
RECURSIVE Rows(_, _, _)
Rows(df, mask, m) ==
  IF m > Len(df) THEN <<>>
  ELSE (IF mask[m] THEN <<df[m]>> ELSE <<>>) \o Rows(df, mask, m + 1)

\* ------------------------------------------------------------------------
\* State
\* ------------------------------------------------------------------------

VARIABLES
  fn,        \* the likelihood function being evaluated
  lpc,       \* its position: "start", "loop0", "loop1", "log", "done"
  par,       \* its parameter vector
  rows,      \* its observation batch
  prob,      \* negloglike's prob (loglike_dummy's probs)
  prob0,     \* prob as line 857 computed it, before any clamp
  index_p0,  \* negloglike's index_p0
  index_p1,  \* negloglike's index_p1
  ci,        \* the position of the running clamp loop in its index list
  ret        \* the value returned

VARIABLES
  gfn,           \* the function computing G: "congradloglike" or "gradcontr"
  gpc,           \* its position: "start", "grads", "frame", "loop", "done"
  gdt,           \* the observations: label, cluster id, gradient at the estimate
  vsingle_grad,  \* gradcontr's list of per-observation gradients
  dg,            \* gradcontr's frame of (wid, gradient)
  cl,            \* np.unique of the cluster ids
  gi,            \* the position of the running loop
  G,             \* the matrix accumulated (sandwich in congradloglike)
  used           \* how often each observation entered a cluster sum

likeVars == <<fn, lpc, par, rows, prob, prob0, index_p0, index_p1, ci, ret>>

gVars == <<gfn, gpc, gdt, vsingle_grad, dg, cl, gi, G, used>>

VARIABLES
  nb,            \* the notebook that runs: "choice", "effort" or "none"
  pc,            \* the cell that runs next
  err,           \* the exception that stopped the run
  files,         \* the input files
  ns,            \* the variables of the kernel
  csv,           \* the tables written to table1_python.csv, in order
  log,           \* the statements executed: lines, stage, names read and bound
  out,           \* what the cells have printed and displayed
  memo,          \* what the optimizers and the Hessian routines have returned
  run,           \* 1 in the first run of a notebook, 2 in the second
  first,         \* the starting guess, estimates and table of the first run
  byhand,        \* the cells executed one by one after the run has ended
  iterations     \* the iterations of the Nelder-Mead loop so far

runVars ==
  <<nb, pc, err, files, ns, csv, log, out, memo, run, first, byhand, iterations>>

VARIABLES
  aN, aK, aJ,    \* observations, parameters and clusters
  aAdj,          \* the adjustment for them
  aPrev          \* the adjustment for one observation less

adjVars == <<aN, aK, aJ, aAdj, aPrev>>

vars == <<likeVars, gVars, runVars, adjVars>>

\* ------------------------------------------------------------------------
\* Evaluating a likelihood
\* ------------------------------------------------------------------------

LikeIdle ==
  /\ prob = <<>> /\ prob0 = <<>> /\ index_p0 = <<>> /\ index_p1 = <<>>
  /\ ci = 1 /\ ret = Zero

LikeOff == fn = "none" /\ lpc = "off" /\ par = <<>> /\ rows = <<>> /\ LikeIdle

Null == <<>>

EmptyNs ==
  [dt1 |-> Null, dt2 |-> Null, data_drop |-> Null, v0 |-> Null, sol |-> Null,
   res_s1 |-> Null, results_s1 |-> Null, inv_hess |-> Null, adj |-> Null,
   grad_contribution |-> Null, varcov_s1 |-> Null, se_s1 |-> Null,
   sol2 |-> Null, res_s2 |-> Null, results_s2 |-> Null, inv_hess2 |-> Null,
   grad_contribution2 |-> Null, varcov_s2 |-> Null, se_s2 |-> Null,
   zvalues_s1 |-> Null, pvalues_s1 |-> Null, zvalues_s2 |-> Null,
   pvalues_s2 |-> Null, var_s1 |-> Null, var_s2 |-> Null,
   zvalues_s1s2 |-> Null, pvalues_s1s2 |-> Null,
   dt |-> Null, ind_keep |-> Null, par_init |-> Null, res |-> Null,
   hessian |-> Null, hess_inv |-> Null, gradfun |-> Null,
   varcov_estimates |-> Null, se_cluster |-> Null,
   zvalues_1 |-> Null, pvalues_1 |-> Null, zvalue_a |-> Null, pvalue_a |-> Null,
   Table_1 |-> Null,
   indicators_x |-> Null, indicators_y |-> Null, indicators_x2 |-> Null,
   indicators_y2 |-> Null, table_s1 |-> Null]

NoMemo == [minimize |-> {}, hessian |-> {}]

NoFirst == [v0 |-> Null, estimates |-> Null, Table_1 |-> Null]

NoFiles == [exp1 |-> <<>>, exp2 |-> <<>>, dropped |-> <<>>, decisions |-> <<>>, keep |-> <<>>]

RunOff ==
  /\ nb = "none" /\ pc = "off" /\ err = NoError /\ files = NoFiles
  /\ ns = EmptyNs /\ csv = <<>>
  /\ log = <<>> /\ out = <<>> /\ memo = NoMemo /\ run = 0 /\ first = NoFirst
  /\ byhand = 0 /\ iterations = 0

AdjOff == aN = 0 /\ aK = 0 /\ aJ = 0 /\ aAdj = Zero /\ aPrev = Zero

GOff ==
  /\ gfn = "none" /\ gpc = "off" /\ gdt = <<>> /\ vsingle_grad = <<>> /\ dg = <<>>
  /\ cl = <<>> /\ gi = 1 /\ G = <<>> /\ used = <<>>

LikeInit ==
  /\ lpc = "start"
  /\ \/ fn = "loglike_dummy" /\ par \in ChoiceParams /\ rows \in SeqsUpTo(ChoiceRows, MaxObs)
     \/ fn = "negloglike" /\ par \in EffortParams /\ rows \in SeqsUpTo(EffortRows, MaxObs)
  /\ LikeIdle
  /\ GOff /\ RunOff /\ AdjOff

\* loglike_dummy, lines 140-153
CallLoglikeDummy ==
  /\ fn = "loglike_dummy" /\ lpc = "start"
  /\ prob' = DummyProbs(par, rows)
  /\ prob0' = prob'
  /\ ret' = NegSumLog(prob')
  /\ lpc' = "done"
  /\ UNCHANGED <<fn, par, rows, index_p0, index_p1, ci>>
  /\ UNCHANGED <<gVars, runVars, adjVars>>

\* negloglike, lines 837-862: prob and the two index lists
NegloglikeProb ==
  /\ fn = "negloglike" /\ lpc = "start"
  /\ prob' = EffortProbs(par, rows)
  /\ prob0' = prob'
  /\ index_p0' = IndexWhere(prob', Zero)
  /\ index_p1' = IndexWhere(prob', One)
  /\ lpc' = "loop0"
  /\ ci' = 1
  /\ UNCHANGED <<fn, par, rows, ret>>
  /\ UNCHANGED <<gVars, runVars, adjVars>>

\* lines 866-867: one iteration of "for i in index_p0"
Clamp0Step ==
  /\ lpc = "loop0" /\ ci <= Len(index_p0)
  /\ prob' = [prob EXCEPT ![index_p0[ci]] = ClampLow]
  /\ ci' = ci + 1
  /\ UNCHANGED <<fn, lpc, par, rows, prob0, index_p0, index_p1, ret>>
  /\ UNCHANGED <<gVars, runVars, adjVars>>

Clamp0Exit ==
  /\ lpc = "loop0" /\ ci > Len(index_p0)
  /\ lpc' = "loop1"
  /\ ci' = 1
  /\ UNCHANGED <<fn, par, rows, prob, prob0, index_p0, index_p1, ret>>
  /\ UNCHANGED <<gVars, runVars, adjVars>>

\* lines 869-870: one iteration of "for i in index_p1"
Clamp1Step ==
  /\ lpc = "loop1" /\ ci <= Len(index_p1)
  /\ prob' = [prob EXCEPT ![index_p1[ci]] = ClampHigh]
  /\ ci' = ci + 1
  /\ UNCHANGED <<fn, lpc, par, rows, prob0, index_p0, index_p1, ret>>
  /\ UNCHANGED <<gVars, runVars, adjVars>>

Clamp1Exit ==
  /\ lpc = "loop1" /\ ci > Len(index_p1)
  /\ lpc' = "log"
  /\ ci' = 1
  /\ UNCHANGED <<fn, par, rows, prob, prob0, index_p0, index_p1, ret>>
  /\ UNCHANGED <<gVars, runVars, adjVars>>

\* lines 872-874
NegloglikeReturn ==
  /\ lpc = "log"
  /\ ret' = NegSumLog(prob)
  /\ lpc' = "done"
  /\ UNCHANGED <<fn, par, rows, prob, prob0, index_p0, index_p1, ci>>
  /\ UNCHANGED <<gVars, runVars, adjVars>>

LikeNext ==
  \/ CallLoglikeDummy
  \/ NegloglikeProb
  \/ Clamp0Step
  \/ Clamp0Exit
  \/ Clamp1Step
  \/ Clamp1Exit
  \/ NegloglikeReturn

SpecLike == LikeInit /\ [][LikeNext]_vars

\* ------------------------------------------------------------------------
\* Computing G
\* ------------------------------------------------------------------------

GInit ==
  /\ gfn \in {"congradloglike", "gradcontr"}
  /\ gpc = "start"
  /\ gdt \in GradData
  /\ vsingle_grad = <<>> /\ dg = <<>> /\ cl = <<>> /\ gi = 1 /\ G = <<>>
  /\ used = [m \in 1..Len(gdt) |-> 0]
  /\ LikeOff /\ RunOff /\ AdjOff

\* the length of the parameter vector: len(gradi[0]), len(parameters)
GDim == Len(gdt[1].g)

Count(sel) == [m \in 1..Len(used) |-> used[m] + Cardinality({p \in 1..Len(sel) : sel[p] = m})]

\* congradloglike, lines 266-269
CongradStart ==
  /\ gfn = "congradloglike" /\ gpc = "start"
  /\ cl' = Unique(Column(gdt, "wid"))
  /\ G' = Zeros(GDim)
  /\ gi' = 1
  /\ gpc' = "loop"
  /\ UNCHANGED <<gfn, gdt, vsingle_grad, dg, used>>
  /\ UNCHANGED <<likeVars, runVars, adjVars>>

\* congradloglike, lines 270-273: one iteration of the cluster loop
CongradIter ==
  /\ gfn = "congradloglike" /\ gpc = "loop" /\ gi <= Len(cl)
  /\ LET sel == Sel(Column(gdt, "wid"), cl[gi])
         gradsel == SumRows(Column(gdt, "g"), sel, GDim)
     IN  /\ G' = MatAdd(G, ClusterOuter(gradsel))
         /\ used' = Count(sel)
  /\ gi' = gi + 1
  /\ UNCHANGED <<gfn, gpc, gdt, vsingle_grad, dg, cl>>
  /\ UNCHANGED <<likeVars, runVars, adjVars>>

\* congradloglike, line 274
CongradReturn ==
  /\ gfn = "congradloglike" /\ gpc = "loop" /\ gi > Len(cl)
  /\ gpc' = "done"
  /\ UNCHANGED <<gfn, gdt, vsingle_grad, dg, cl, gi, G, used>>
  /\ UNCHANGED <<likeVars, runVars, adjVars>>

\* gradcontr, lines 950-951
GradcontrStart ==
  /\ gfn = "gradcontr" /\ gpc = "start"
  /\ G' = Zeros(GDim)
  /\ vsingle_grad' = <<>>
  /\ gi' = 0
  /\ gpc' = "grads"
  /\ UNCHANGED <<gfn, gdt, dg, cl, used>>
  /\ UNCHANGED <<likeVars, runVars, adjVars>>

\* gradcontr, lines 953-960: one iteration of the loop over the observations
GradcontrGrad ==
  /\ gfn = "gradcontr" /\ gpc = "grads" /\ gi < Len(gdt)
  /\ vsingle_grad' = Append(vsingle_grad, gradfun(RowAt(gdt, gi)))
  /\ gi' = gi + 1
  /\ UNCHANGED <<gfn, gpc, gdt, dg, cl, G, used>>
  /\ UNCHANGED <<likeVars, runVars, adjVars>>

\* gradcontr, lines 965-967: the frame dg and np.unique(dt.wid)
GradcontrFrame ==
  /\ gfn = "gradcontr" /\ gpc = "grads" /\ gi = Len(gdt)
  /\ dg' = [m \in 1..Len(gdt) |-> [wid |-> gdt[m].wid, gradient |-> vsingle_grad[m]]]
  /\ cl' = Unique(Column(gdt, "wid"))
  /\ gi' = 1
  /\ gpc' = "loop"
  /\ UNCHANGED <<gfn, gdt, vsingle_grad, G, used>>
  /\ UNCHANGED <<likeVars, runVars, adjVars>>

\* gradcontr, lines 967-970: one iteration of the loop over the identifiers
GradcontrIter ==
  /\ gfn = "gradcontr" /\ gpc = "loop" /\ gi <= Len(cl)
  /\ LET sel == Sel(Column(dg, "wid"), cl[gi])
         ind_grad == SumRows(Column(dg, "gradient"), sel, GDim)
     IN  /\ G' = MatAdd(G, ClusterOuter(ind_grad))
         /\ used' = Count(sel)
  /\ gi' = gi + 1
  /\ UNCHANGED <<gfn, gpc, gdt, vsingle_grad, dg, cl>>
  /\ UNCHANGED <<likeVars, runVars, adjVars>>

\* gradcontr, line 972
GradcontrReturn ==
  /\ gfn = "gradcontr" /\ gpc = "loop" /\ gi > Len(cl)
  /\ gpc' = "done"
  /\ UNCHANGED <<gfn, gdt, vsingle_grad, dg, cl, gi, G, used>>
  /\ UNCHANGED <<likeVars, runVars, adjVars>>

GNext ==
  \/ CongradStart
  \/ CongradIter
  \/ CongradReturn
  \/ GradcontrStart
  \/ GradcontrGrad
  \/ GradcontrFrame
  \/ GradcontrIter
  \/ GradcontrReturn

SpecG == GInit /\ [][GNext]_vars

\* ------------------------------------------------------------------------
\* A run of a notebook, top to bottom
\* ------------------------------------------------------------------------

\* one statement group of a cell as the log keeps it: its lines, its stage,
\* the estimation it belongs to, the names it reads and the names it binds
Step(a, b, stage, on, reads, binds) ==
  [lines |-> <<a, b>>, stage |-> stage, on |-> on, reads |-> reads, binds |-> binds]

\* the optimizers and the Hessian routines are functions of their arguments:
\* a call that repeats an earlier call returns what that call returned
Agrees(S, data, at, val) ==
  \A e \in S : (e.data = data /\ e.at = at) => e.val = val

Remember(S, data, at, val) == S \cup {[data |-> data, at |-> at, val |-> val]}

\* sol.fun, the value of the objective that the optimizer reports with sol.x
SolFun(x) == IF x[1] = 0 THEN Fin(24691, 200) ELSE PInf

\* np.round(x, k) and "{:.kf}".format(x): to the nearest multiple of 10^-k,
\* a tie to the even one
Round(x, k) ==
  IF x.c # "fin" THEN x
  ELSE LET s == Pow(10, k)
           q == (x.n * s) \div x.d
           r == (x.n * s) % x.d
       IN  IF 2 * r < x.d THEN Fin(q, s)
           ELSE IF 2 * r > x.d THEN Fin(q + 1, s)
           ELSE Fin(q + (q % 2), s)

\* one line of output
Line(text, value) == [text |-> text, value |-> value]

\* A faulty variant of ToCsv: the table written after what the file held.
ToCsvAppending(file, table) == file \o <<table, table>>

\* Table_1.to_csv('../output/table1_python.csv'): one more write of the file
ToCsv(file, table) == Append(file, table)

\* what the name hessian is bound to: the function imported from autograd
\* (line 726), which can be called, or an array, which cannot
Imported(name) == [callable |-> TRUE, type |-> name, value |-> <<>>]

\* A faulty variant of Rebound: the matrix bound to a name of its own, the
\* name hessian left as it was.
ReboundElsewhere(old, H) == old

\* hessian = Hfun(res, *mle_args), line 985: the name is bound to the matrix
Rebound(old, H) == [callable |-> FALSE, type |-> "numpy.ndarray", value |-> H]

\* the kernel after the import cell, lines 36-40 and 722-726
Kernel(n) ==
  IF n = "effort" THEN [EmptyNs EXCEPT !.hessian = Imported("autograd.hessian")]
  ELSE EmptyNs

Imports(n) ==
  IF n = "effort"
  THEN <<Step(722, 726, "import", "all", {},
              {"norm", "np", "pd", "opt", "grad", "hessian"})>>
  ELSE <<Step(36, 40, "import", "all", {}, {"np", "pd", "opt", "nd", "norm"})>>

RunInit ==
  /\ nb \in {"choice", "effort"}
  /\ pc = "load"
  /\ err = NoError
  /\ \/ /\ nb = "choice"
        /\ \E f1 \in ChoiceFiles \cup ChoiceFilesMissing, f2 \in ChoiceFiles2,
              d \in DropLists :
             files = [exp1 |-> f1, exp2 |-> f2, dropped |-> d,
                      decisions |-> <<>>, keep |-> <<>>]
     \/ /\ nb = "effort"
        /\ \E f \in EffortFiles \cup EffortFilesMissing, k \in KeepLists :
             files = [exp1 |-> <<>>, exp2 |-> <<>>, dropped |-> <<>>,
                      decisions |-> f, keep |-> k]
  /\ ns = Kernel(nb)
  /\ log = Imports(nb)
  /\ csv = <<>> /\ out = <<>> /\ memo = NoMemo /\ run = 1 /\ first = NoFirst
  /\ byhand = 0 /\ iterations = 0
  /\ LikeOff /\ GOff /\ AdjOff

\* lines 61-68
ChoiceLoad ==
  /\ nb = "choice" /\ pc = "load"
  /\ LET NotDropped(df) == [m \in 1..Len(df) |-> df[m].sid \notin Range(files.dropped)]
     IN  ns' = [ns EXCEPT !.data_drop = files.dropped,
                          !.dt1 = Rows(files.exp1, NotDropped(files.exp1), 1),
                          !.dt2 = Rows(files.exp2, NotDropped(files.exp2), 1)]
  /\ log' = Append(log, Step(61, 68, "load", "all", {"pd"}, {"dt1", "dt2", "data_drop"}))
  /\ pc' = "indicators"
  /\ UNCHANGED <<nb, err, files, csv, out, memo, run, first, byhand, iterations, likeVars, gVars, adjVars>>

\* np.column_stack((dt.s_x, dt.r_x, dt.q, dt.v)) and the same for y
IndicatorsX(dt) == [m \in 1..Len(dt) |-> <<dt[m].s_x, dt[m].r_x, dt[m].q, dt[m].v>>]

IndicatorsY(dt) == [m \in 1..Len(dt) |-> <<dt[m].s_y, dt[m].r_y, dt[m].q, dt[m].v>>]

\* lines 88-89
ChoiceIndicators ==
  /\ nb = "choice" /\ pc = "indicators"
  /\ ns' = [ns EXCEPT !.indicators_x = IndicatorsX(ns.dt1),
                      !.indicators_y = IndicatorsY(ns.dt1)]
  /\ log' = Append(log, Step(88, 89, "transform", "s1", {"np", "dt1"},
                             {"indicators_x", "indicators_y"}))
  /\ pc' = "def_loglike"
  /\ UNCHANGED <<nb, err, files, csv, out, memo, run, first, byhand, iterations, likeVars, gVars, adjVars>>

\* lines 140-153: the cell that defines loglike_dummy
ChoiceDefLoglike ==
  /\ nb = "choice" /\ pc = "def_loglike"
  /\ log' = Append(log, Step(140, 153, "define", "all", {}, {"loglike_dummy"}))
  /\ pc' = "estimate"
  /\ UNCHANGED <<nb, err, files, ns, csv, out, memo, run, first, byhand, iterations, likeVars, gVars, adjVars>>

\* the names that a call of loglike_dummy on session 1 reads
LoglikeArgs1 == {"loglike_dummy", "np", "dt1", "indicators_x", "indicators_y"}

LoglikeArgs2 == {"loglike_dummy", "np", "dt2", "indicators_x2", "indicators_y2"}

\* lines 183-203: v0 is drawn by np.random.uniform, which the notebook does
\* not seed
ChoiceEstimate ==
  /\ nb = "choice" /\ pc = "estimate"
  /\ \E start \in ChoiceStarts, x \in ChoiceEstimates, success \in BOOLEAN :
       LET sol == [x |-> x, success |-> success, fun |-> SolFun(x)]
       IN  /\ Agrees(memo.minimize, ns.dt1, start, sol)
           /\ memo' = [memo EXCEPT !.minimize = Remember(@, ns.dt1, start, sol)]
           /\ ns' = [ns EXCEPT !.v0 = start,
                               !.sol = sol,
                               !.res_s1 = x,
                               !.results_s1 = Results(x)]
  /\ log' = log \o
       <<Step(183, 193, "optimize", "s1", {"np", "dt1"},
              {"beta_init", "sigma_init", "v0", "warnings"}),
         Step(199, 203, "optimize", "s1", LoglikeArgs1 \cup {"opt", "v0"},
              {"sol", "res_s1", "results_s1"})>>
  /\ pc' = "def_congrad"
  /\ UNCHANGED <<nb, err, files, csv, out, run, first, byhand, iterations, likeVars, gVars, adjVars>>

\* lines 234-274: the cell that defines congradloglike
ChoiceDefCongrad ==
  /\ nb = "choice" /\ pc = "def_congrad"
  /\ log' = Append(log, Step(234, 274, "define", "all", {}, {"congradloglike"}))
  /\ pc' = "stderr"
  /\ UNCHANGED <<nb, err, files, ns, csv, out, memo, run, first, byhand, iterations, likeVars, gVars, adjVars>>

\* the statements of lines 286-295, in order
ChoiceStdErrSteps ==
  <<Step(286, 287, "differentiate", "s1", LoglikeArgs1 \cup {"nd", "res_s1"},
         {"hess_fun", "inv_hess"}),
    Step(289, 289, "differentiate", "s1", {"np", "dt1", "res_s1"}, {"adj"}),
    Step(291, 291, "differentiate", "s1",
         {"congradloglike", "np", "res_s1", "dt1", "indicators_x", "indicators_y"},
         {"grad_contribution"}),
    Step(293, 295, "differentiate", "s1",
         {"np", "adj", "inv_hess", "grad_contribution", "res_s1"},
         {"varcov_s1", "se_s1"})>>

\* lines 286-295
ChoiceStdErr ==
  /\ nb = "choice" /\ pc = "stderr"
  /\ \E H \in Hessians(Len(ns.res_s1)) :
       LET inv_hess == MatInv(H)
           sid == Column(ns.dt1, "sid")
           a == AdjEval(Len(ns.dt1), Len(ns.res_s1), Len(Unique(sid)))
           grad_contribution == CongradG(Column(ns.dt1, "g"), sid)
           varcov_s1 == Sandwich(a.val, inv_hess, grad_contribution)
           se_s1 == SqrtDiag(varcov_s1)
       IN  /\ Agrees(memo.hessian, ns.dt1, ns.res_s1, H)
           /\ memo' = [memo EXCEPT !.hessian = Remember(@, ns.dt1, ns.res_s1, H)]
           /\ IF a.type # "none"
              THEN /\ ns' = [ns EXCEPT !.inv_hess = inv_hess]
                   /\ log' = log \o SubSeq(ChoiceStdErrSteps, 1, 1)
                   /\ err' = [type |-> a.type, at |-> a.at]
                   /\ pc' = "error"
              ELSE /\ ns' = [ns EXCEPT !.inv_hess = inv_hess,
                                       !.adj = a.val,
                                       !.grad_contribution = grad_contribution,
                                       !.varcov_s1 = varcov_s1,
                                       !.se_s1 = WithDelta(ns.res_s1, se_s1)]
                   /\ log' = log \o ChoiceStdErrSteps
                   /\ err' = err
                   /\ pc' = "session2"
  /\ UNCHANGED <<nb, files, csv, out, run, first, byhand, iterations, likeVars, gVars, adjVars>>

\* A faulty variant of SecondStart: a starting vector drawn anew for session 2.
SecondStartRedrawn(v0) == CHOOSE start \in ChoiceStarts : start # v0

\* the starting vector of opt.minimize(loglike_dummy, v0, ...) at line 312:
\* the list v0 of line 186, which no call has changed
SecondStart(v0) == v0

\* the statements of lines 308-325, in order
ChoiceSession2Steps ==
  <<Step(308, 309, "transform", "s2", {"np", "dt2"},
         {"indicators_x2", "indicators_y2"}),
    Step(312, 316, "optimize", "s2", LoglikeArgs2 \cup {"opt", "v0"},
         {"sol2", "res_s2", "results_s2"}),
    Step(319, 319, "differentiate", "s2", LoglikeArgs2 \cup {"hess_fun", "res_s2"},
         {"inv_hess2"}),
    Step(320, 320, "differentiate", "s2", {"np", "dt2", "res_s2"}, {"adj"}),
    Step(321, 321, "differentiate", "s2",
         {"congradloglike", "np", "res_s2", "dt2", "indicators_x2", "indicators_y2"},
         {"grad_contribution2"}),
    Step(323, 325, "differentiate", "s2",
         {"np", "adj", "inv_hess2", "grad_contribution2", "res_s2"},
         {"varcov_s2", "se_s2"})>>

\* lines 308-325: session 2 starts from the v0 of session 1
ChoiceSession2 ==
  /\ nb = "choice" /\ pc = "session2"
  /\ \E x \in ChoiceEstimates, success \in BOOLEAN : \E H \in Hessians(Len(x)) :
       LET sol2 == [x |-> x, success |-> success, fun |-> SolFun(x)]
           est == [ns EXCEPT !.indicators_x2 = IndicatorsX(ns.dt2),
                             !.indicators_y2 = IndicatorsY(ns.dt2),
                             !.sol2 = sol2,
                             !.res_s2 = x,
                             !.results_s2 = Results(x),
                             !.inv_hess2 = MatInv(H)]
           sid == Column(ns.dt2, "sid")
           a == AdjEval(Len(ns.dt2), Len(x), Len(Unique(sid)))
           grad_contribution2 == CongradG(Column(ns.dt2, "g"), sid)
           varcov_s2 == Sandwich(a.val, est.inv_hess2, grad_contribution2)
           se_s2 == SqrtDiag(varcov_s2)
       IN  /\ Agrees(memo.minimize, ns.dt2, SecondStart(ns.v0), sol2)
           /\ Agrees(memo.hessian, ns.dt2, x, H)
           /\ memo' = [minimize |-> Remember(memo.minimize, ns.dt2, SecondStart(ns.v0), sol2),
                       hessian |-> Remember(memo.hessian, ns.dt2, x, H)]
           /\ IF a.type # "none"
              THEN /\ ns' = est
                   /\ log' = log \o SubSeq(ChoiceSession2Steps, 1, 3)
                   /\ err' = [type |-> a.type, at |-> a.at]
                   /\ pc' = "error"
              ELSE /\ ns' = [est EXCEPT !.adj = a.val,
                                        !.grad_contribution2 = grad_contribution2,
                                        !.varcov_s2 = varcov_s2,
                                        !.se_s2 = WithDelta(x, se_s2)]
                   /\ log' = log \o ChoiceSession2Steps
                   /\ err' = err
                   /\ pc' = "tests"
  /\ UNCHANGED <<nb, files, csv, out, run, first, byhand, iterations, likeVars, gVars, adjVars>>

\* lines 349-367
ChoiceTests ==
  /\ nb = "choice" /\ pc = "tests"
  /\ LET k == Len(ns.results_s1)
         zvalues_s1 == [a \in 1..k |-> VDiv(ns.results_s1[a], ns.se_s1[a])]
         zvalues_s2 == [a \in 1..k |-> VDiv(ns.results_s2[a], ns.se_s2[a])]
         var_s1 == [a \in 1..k |-> VMul(ns.se_s1[a], ns.se_s1[a])]
         var_s2 == [a \in 1..k |-> VMul(ns.se_s2[a], ns.se_s2[a])]
         zvalues_s1s2 ==
           [a \in 1..k |-> VDiv(VAbs(VSub(ns.results_s1[a], ns.results_s2[a])),
                                VSqrt(VAdd(var_s1[a], var_s2[a])))]
     IN  ns' = [ns EXCEPT
                  !.zvalues_s1 = zvalues_s1,
                  !.pvalues_s1 = [a \in 1..k |-> TwoSided(VAbs(zvalues_s1[a]))],
                  !.zvalues_s2 = zvalues_s2,
                  !.pvalues_s2 = [a \in 1..k |-> TwoSided(VAbs(zvalues_s2[a]))],
                  !.var_s1 = var_s1,
                  !.var_s2 = var_s2,
                  !.zvalues_s1s2 = zvalues_s1s2,
                  !.pvalues_s1s2 = [a \in 1..k |-> TwoSided(zvalues_s1s2[a])]]
  /\ log' = Append(log, Step(349, 367, "report", "all",
                             {"np", "norm", "results_s1", "se_s1", "results_s2", "se_s2"},
                             {"zvalues_s1", "pvalues_s1", "zvalues_s2", "pvalues_s2",
                              "var_s1", "var_s2", "zvalues_s1s2", "pvalues_s1s2"}))
  /\ pc' = "table"
  /\ UNCHANGED <<nb, err, files, csv, out, memo, run, first, byhand, iterations, likeVars, gVars, adjVars>>

\* the names whose values the tables of the choice notebook hold
ChoiceReported ==
  {"results_s1", "se_s1", "zvalues_s1", "pvalues_s1", "results_s2", "se_s2",
   "zvalues_s2", "pvalues_s2", "pvalues_s1s2"}

\* lines 395-406
ChoiceTable ==
  /\ nb = "choice" /\ pc = "table"
  /\ LET Table_1 ==
           [estimates_s1 |-> Round3All(ns.results_s1),
            standarderr_s1 |-> Round3All(ns.se_s1),
            zstat_s1 |-> Round3All(ns.zvalues_s1),
            pval_s1 |-> Round3All(ns.pvalues_s1),
            estimates_s2 |-> Round3All(ns.results_s2),
            standarderr_s2 |-> Round3All(ns.se_s2),
            zstat_s2 |-> Round3All(ns.zvalues_s2),
            pval_s2 |-> Round3All(ns.pvalues_s2),
            pval_s1s2 |-> Round3All(ns.pvalues_s1s2)]
     IN  /\ ns' = [ns EXCEPT !.Table_1 = Table_1]
         /\ csv' = ToCsv(csv, Table_1)
  /\ log' = log \o
       <<Step(395, 404, "report", "all", ChoiceReported \cup {"pd", "np"},
              {"parameters_name", "Table_1"}),
         Step(406, 406, "report", "all", {"Table_1"}, {})>>
  /\ pc' = "print"
  /\ UNCHANGED <<nb, err, files, out, memo, run, first, byhand, iterations, likeVars, gVars, adjVars>>

\* lines 646-662: the two tables displayed are both bound to table_s1
ChoicePrint ==
  /\ nb = "choice" /\ pc = "print"
  /\ LET session1 ==
           [estimates_s1 |-> Round3All(ns.results_s1),
            standarderr_s1 |-> Round3All(ns.se_s1),
            zstat_s1 |-> Round3All(ns.zvalues_s1),
            pval_s1 |-> Round3All(ns.pvalues_s1),
            pval_s1s2 |-> Round3All(ns.pvalues_s1s2)]
         session2 ==
           [estimates_s2 |-> Round3All(ns.results_s2),
            standarderr_s2 |-> Round3All(ns.se_s2),
            zstat_s2 |-> Round3All(ns.zvalues_s2),
            pval_s2 |-> Round3All(ns.pvalues_s2),
            pval_s1s2 |-> Round3All(ns.pvalues_s1s2)]
     IN  /\ ns' = [ns EXCEPT !.table_s1 = session2]
         /\ out' = out \o
              <<Line("Table 1, session 1", session1),
                Line("Number of observations:", Len(ns.dt1)),
                Line("Number of subjects:", Len(Unique(Column(ns.dt1, "sid")))),
                Line("Log likelihood:", Round(VNeg(ns.sol.fun), 2)),
                Line("Table 1, session 2", session2),
                Line("Number of observations:", Len(ns.dt2)),
                Line("Number of subjects:", Len(Unique(Column(ns.dt2, "sid")))),
                Line("Log likelihood:", Round(VNeg(ns.sol2.fun), 2))>>
  /\ log' = Append(log, Step(646, 662, "report", "all",
                             ChoiceReported \cup {"pd", "np", "parameters_name", "dt1",
                                                  "dt2", "sol", "sol2"},
                             {"table_s1"}))
  /\ pc' = "done"
  /\ UNCHANGED <<nb, err, files, csv, memo, run, first, byhand, iterations, likeVars, gVars, adjVars>>

\* lines 746-751
EffortLoad ==
  /\ nb = "effort" /\ pc = "load"
  /\ LET isin == [m \in 1..Len(files.decisions) |->
                    files.decisions[m].wid \in Range(files.keep)]
     IN  ns' = [ns EXCEPT !.ind_keep = files.keep,
                          !.dt = Rows(files.decisions, isin, 1)]
  /\ log' = Append(log, Step(746, 751, "load", "all", {"pd"}, {"dt", "ind_keep"}))
  /\ pc' = "features"
  /\ UNCHANGED <<nb, err, files, csv, out, memo, run, first, byhand, iterations, likeVars, gVars, adjVars>>

\* A faulty variant of Featured: the index label of the file kept.
FeaturedOldLabel(r, label) ==
  [label |-> r.label, wid |-> r.wid, bonusoffered |-> r.bonusoffered,
   workdone1 |-> r.workdone1, effort |-> r.effort, wage |-> r.wage, g |-> r.g,
   pb |-> r.workdone1 \div 10,
   ind_effort10 |-> ind_effort10(r), ind_effort110 |-> ind_effort110(r)]

\* A faulty variant of Featured: the index set to 1..N.
FeaturedFromOne(r, label) ==
  [label |-> label + 1, wid |-> r.wid, bonusoffered |-> r.bonusoffered,
   workdone1 |-> r.workdone1, effort |-> r.effort, wage |-> r.wage, g |-> r.g,
   pb |-> r.workdone1 \div 10,
   ind_effort10 |-> ind_effort10(r), ind_effort110 |-> ind_effort110(r)]

\* one row of dt with the columns pb, ind_effort10 and ind_effort110, under
\* the index label
Featured(r, label) ==
  [label |-> label, wid |-> r.wid, bonusoffered |-> r.bonusoffered,
   workdone1 |-> r.workdone1, effort |-> r.effort, wage |-> r.wage, g |-> r.g,
   pb |-> r.workdone1 \div 10,
   ind_effort10 |-> ind_effort10(r), ind_effort110 |-> ind_effort110(r)]

\* lines 769-773
EffortFeatures ==
  /\ nb = "effort" /\ pc = "features"
  /\ LET nobonus == [m \in 1..Len(ns.dt) |-> ns.dt[m].bonusoffered # 1]
         dt == Rows(ns.dt, nobonus, 1)
     IN  ns' = [ns EXCEPT !.dt = [m \in 1..Len(dt) |-> Featured(dt[m], m - 1)]]
  /\ log' = Append(log, Step(769, 773, "transform", "all", {"np", "dt"}, {"dt"}))
  /\ pc' = "def_negloglike"
  /\ UNCHANGED <<nb, err, files, csv, out, memo, run, first, byhand, iterations, likeVars, gVars, adjVars>>

\* lines 835-874: the cell that defines negloglike
EffortDefNegloglike ==
  /\ nb = "effort" /\ pc = "def_negloglike"
  /\ log' = Append(log, Step(835, 874, "define", "all", {}, {"negloglike"}))
  /\ pc' = "estimate"
  /\ UNCHANGED <<nb, err, files, ns, csv, out, memo, run, first, byhand, iterations, likeVars, gVars, adjVars>>

\* lines 903-913 when opt.minimize returns sol with sol.x = x and
\* sol.success = success
Minimized(x, success) ==
  LET sol == [x |-> x, success |-> success, fun |-> SolFun(x)]
  IN  /\ Agrees(memo.minimize, ns.dt, ParInit, sol)
      /\ memo' = [memo EXCEPT !.minimize = Remember(@, ns.dt, ParInit, sol)]
      /\ ns' = [ns EXCEPT !.par_init = ParInit,
                          !.sol = sol,
                          !.res = x]
      /\ log' = log \o
           <<Step(903, 908, "optimize", "all", {"dt"},
                  {"beta_init", "betahat_init", "delta_init", "gamma_init", "phi_init",
                   "alpha_init", "sigma_init", "par_init", "mle_args"}),
             Step(912, 913, "optimize", "all",
                  {"opt", "negloglike", "np", "norm", "par_init", "mle_args"},
                  {"sol", "res"})>>
      /\ pc' = "def_gradcontr"

\* lines 903-913
EffortEstimate ==
  /\ nb = "effort" /\ pc = "estimate"
  /\ \E x \in EffortEstimates, success \in BOOLEAN : Minimized(x, success)
  /\ UNCHANGED <<nb, err, files, csv, out, run, first, byhand, iterations, likeVars, gVars, adjVars>>

\* lines 948-972: the cell that defines gradcontr
EffortDefGradcontr ==
  /\ nb = "effort" /\ pc = "def_gradcontr"
  /\ log' = Append(log, Step(948, 972, "define", "all", {}, {"gradcontr"}))
  /\ pc' = "stderr"
  /\ UNCHANGED <<nb, err, files, ns, csv, out, memo, run, first, byhand, iterations, likeVars, gVars, adjVars>>

\* A faulty variant of EffortStdErrSteps: gradcontr called before gradfun is
\* bound.
EffortStdErrStepsGradfunLate ==
  <<Step(984, 986, "differentiate", "all",
         {"hessian", "negloglike", "np", "norm", "res", "mle_args"},
         {"Hfun", "hessian", "hess_inv"}),
    Step(990, 990, "differentiate", "all",
         {"gradcontr", "gradfun", "np", "pd", "negloglike", "norm", "dt", "res"},
         {"grad_contribution"}),
    Step(989, 989, "differentiate", "all", {"grad", "negloglike"}, {"gradfun"}),
    Step(993, 993, "differentiate", "all", {"np", "dt", "res"}, {"adj"}),
    Step(995, 996, "differentiate", "all",
         {"np", "adj", "hess_inv", "grad_contribution"},
         {"varcov_estimates", "se_cluster"})>>

\* the statements of lines 984-996, in order; gradcontr reads the global
\* gradfun when it is called
EffortStdErrSteps ==
  <<Step(984, 986, "differentiate", "all",
         {"hessian", "negloglike", "np", "norm", "res", "mle_args"},
         {"Hfun", "hessian", "hess_inv"}),
    Step(989, 989, "differentiate", "all", {"grad", "negloglike"}, {"gradfun"}),
    Step(990, 990, "differentiate", "all",
         {"gradcontr", "gradfun", "np", "pd", "negloglike", "norm", "dt", "res"},
         {"grad_contribution"}),
    Step(993, 993, "differentiate", "all", {"np", "dt", "res"}, {"adj"}),
    Step(995, 996, "differentiate", "all",
         {"np", "adj", "hess_inv", "grad_contribution"},
         {"varcov_estimates", "se_cluster"})>>

\* the cell of lines 984-996: hessian(negloglike) at line 984 calls whatever
\* the name hessian is bound to, and raises TypeError when that is an array;
\* the run goes to the cell `next` when the cell ends and to `failed` when it
\* raises
StdErrCell(next, failed) ==
  IF ~ns.hessian.callable
  THEN /\ ns' = ns
       /\ memo' = memo
       /\ log' = Append(log, Step(984, 984, "differentiate", "all",
                                  {"hessian", "negloglike"}, {}))
       /\ err' = [type |-> "TypeError", at |-> "hessian(negloglike)"]
       /\ pc' = failed
  ELSE \E H \in Hessians(Len(ns.res)) :
       LET hess_inv == MatInv(H)
           grad_contribution == gradcontr(ns.dt, Len(ns.res))
           bound == [ns EXCEPT !.hessian = Rebound(@, H),
                               !.hess_inv = hess_inv,
                               !.gradfun = "grad(negloglike)",
                               !.grad_contribution = grad_contribution]
           wid == Column(ns.dt, "wid")
           a == AdjEval(Len(wid), Len(ns.res), Len(Unique(wid)))
           varcov_estimates == Sandwich(a.val, hess_inv, grad_contribution)
       IN  /\ Agrees(memo.hessian, ns.dt, ns.res, H)
           /\ memo' = [memo EXCEPT !.hessian = Remember(@, ns.dt, ns.res, H)]
           /\ IF a.type # "none"
              THEN /\ ns' = bound
                   /\ log' = log \o SubSeq(EffortStdErrSteps, 1, 3)
                   /\ err' = [type |-> a.type, at |-> a.at]
                   /\ pc' = failed
              ELSE /\ ns' = [bound EXCEPT !.adj = a.val,
                                          !.varcov_estimates = varcov_estimates,
                                          !.se_cluster = SqrtDiag(varcov_estimates)]
                   /\ log' = log \o EffortStdErrSteps
                   /\ err' = NoError
                   /\ pc' = next

\* lines 984-996, in the run from top to bottom
EffortStdErr ==
  /\ nb = "effort" /\ pc = "stderr"
  /\ StdErrCell("tests", "error")
  /\ UNCHANGED <<nb, files, csv, out, run, first, byhand, iterations, likeVars, gVars, adjVars>>

\* lines 1016-1022
EffortTests ==
  /\ nb = "effort" /\ pc = "tests"
  /\ LET zvalues_1 ==
           [a \in 1..3 |-> VDiv(VSub(Int2V(ns.res[a]), One), ns.se_cluster[a])]
         zvalue_a == VDiv(Int2V(ns.res[6]), ns.se_cluster[6])
     IN  ns' = [ns EXCEPT
                  !.zvalues_1 = zvalues_1,
                  !.pvalues_1 = [a \in 1..3 |-> TwoSided(VAbs(zvalues_1[a]))],
                  !.zvalue_a = zvalue_a,
                  !.pvalue_a = TwoSided(VAbs(zvalue_a))]
  /\ log' = Append(log, Step(1016, 1022, "report", "all",
                             {"np", "norm", "res", "se_cluster"},
                             {"zvalues_1", "pvalues_1", "zvalue_a", "pvalue_a"}))
  /\ pc' = "table"
  /\ UNCHANGED <<nb, err, files, csv, out, memo, run, first, byhand, iterations, likeVars, gVars, adjVars>>

\* lines 1047-1057
EffortTable ==
  /\ nb = "effort" /\ pc = "table"
  /\ LET Table_1 ==
           [estimates |-> Round3All([a \in 1..Len(ns.res) |-> Int2V(ns.res[a])]),
            standarderr |-> Round3All(ns.se_cluster)]
     IN  /\ ns' = [ns EXCEPT !.Table_1 = Table_1]
         /\ csv' = ToCsv(csv, Table_1)
  /\ log' = log \o
       <<Step(1047, 1055, "report", "all", {"pd", "np", "res", "se_cluster"},
              {"parameters_name", "Table_1"}),
         Step(1057, 1057, "report", "all", {"Table_1"}, {})>>
  /\ pc' = "print"
  /\ UNCHANGED <<nb, err, files, out, memo, run, first, byhand, iterations, likeVars, gVars, adjVars>>

\* lines 1176-1186
EffortPrint ==
  /\ nb = "effort" /\ pc = "print"
  /\ out' = out \o
       <<Line("Table 1", ns.Table_1),
         Line("Number of observations:", Len(ns.dt)),
         Line("Number of participants:", Len(Unique(Column(ns.dt, "wid")))),
         Line("Log Likelihood:", Round(VNeg(ns.sol.fun), 0)),
         Line("H_0(beta=1)", Round(Round(ns.pvalues_1[1], 3), 2)),
         Line("H_0(betahat=1):", Round(Round(ns.pvalues_1[2], 2), 2)),
         Line("H_0(alpha=0):", Round(Round(ns.pvalue_a, 3), 3)),
         Line("H_0(delta=1):", Round(Round(ns.pvalues_1[3], 2), 2))>>
  /\ log' = Append(log, Step(1176, 1186, "report", "all",
                             {"Table_1", "dt", "np", "sol", "pvalues_1", "pvalue_a"},
                             {"display"}))
  /\ pc' = "done"
  /\ UNCHANGED <<nb, err, files, ns, csv, memo, run, first, byhand, iterations, likeVars, gVars, adjVars>>

RunNext ==
  \/ ChoiceLoad
  \/ ChoiceIndicators
  \/ ChoiceDefLoglike
  \/ ChoiceEstimate
  \/ ChoiceDefCongrad
  \/ ChoiceStdErr
  \/ ChoiceSession2
  \/ ChoiceTests
  \/ ChoiceTable
  \/ ChoicePrint
  \/ EffortLoad
  \/ EffortFeatures
  \/ EffortDefNegloglike
  \/ EffortEstimate
  \/ EffortDefGradcontr
  \/ EffortStdErr
  \/ EffortTests
  \/ EffortTable
  \/ EffortPrint

SpecRun == RunInit /\ [][RunNext]_vars

\* ------------------------------------------------------------------------
\* The adjustment as the sample grows
\* ------------------------------------------------------------------------

\* the parameter vectors have 5 and 7 elements; more clusters than one
AdjInit ==
  /\ aK \in {5, 7}
  /\ aJ \in 2..MaxClusters
  /\ aN = aK + 1
  /\ aAdj = Adj(aN, aK, aJ)
  /\ aPrev = aAdj
  /\ LikeOff /\ GOff /\ RunOff

\* one observation more, in the same clusters
AdjGrow ==
  /\ aN < MaxN
  /\ aN' = aN + 1
  /\ aAdj' = Adj(aN + 1, aK, aJ)
  /\ aPrev' = aAdj
  /\ UNCHANGED <<aK, aJ, likeVars, gVars, runVars>>

AdjNext == AdjGrow

SpecAdj == AdjInit /\ [][AdjNext]_vars

\* ------------------------------------------------------------------------
\* Claims about the likelihood functions
\* ------------------------------------------------------------------------

\* C1: both likelihood functions return a finite number for every parameter
\* vector and every well-formed batch, saturating batches included.
C1_ReturnIsFinite == lpc = "done" => IsFin(ret)

\* C2: in negloglike, after the two clamp loops and before the logarithm,
\* every element of prob that was exactly 0 is 1e-4, every element that was
\* exactly 1 is 1 - 1e-4, every other element is unchanged, and no element
\* is 0 or 1.
C2_ClampedBeforeLog ==
  (fn = "negloglike" /\ lpc = "log") =>
    /\ Len(prob) = Len(prob0)
    /\ \A i \in 1..Len(prob0) :
         /\ prob0[i] = Zero => prob[i] = Fin(1, 10000)
         /\ prob0[i] = One => prob[i] = Fin(9999, 10000)
         /\ prob0[i] \notin {Zero, One} => prob[i] = prob0[i]
         /\ prob[i] \notin {Zero, One}

C2_Witness ==
  /\ fn = "negloglike" /\ lpc = "log"
  /\ \E i, j \in 1..Len(prob0) : prob0[i] = Zero /\ prob0[j] = One

RECURSIVE SumOver(_, _)
SumOver(dt, S) ==
  IF S = {} THEN [a \in 1..Len(dt[1].g) |-> 0]
  ELSE LET m == CHOOSE x \in S : TRUE
       IN  VecAdd(dt[m].g, SumOver(dt, S \ {m}))

\* the sum, over the identifiers in C, of the outer product of the cluster's
\* summed gradient with itself
RECURSIVE SumOfOuter(_, _)
SumOfOuter(dt, C) ==
  IF C = {} THEN Zeros(Len(dt[1].g))
  ELSE LET c == CHOOSE x \in C : TRUE
           gc == SumOver(dt, {m \in 1..Len(dt) : dt[m].wid = c})
       IN  MatAdd(Outer(gc, gc), SumOfOuter(dt, C \ {c}))

\* the rows of dt in the order pi, with the index reset to 0..N-1
Reordered(dt, pi) == [m \in 1..Len(dt) |-> [dt[pi[m]] EXCEPT !.label = m - 1]]

ComputeG(dt) ==
  IF gfn = "congradloglike" THEN CongradG(Column(dt, "g"), Column(dt, "wid"))
  ELSE gradcontr(dt, Len(dt[1].g))

\* C5: G is the sum over the distinct cluster identifiers of the outer product
\* of the cluster's summed gradient with itself; every observation enters
\* exactly one cluster sum; G does not depend on the order of the rows.
C5_ClusterSums ==
  gpc = "done" =>
    /\ G = SumOfOuter(gdt, {gdt[m].wid : m \in 1..Len(gdt)})
    /\ \A m \in 1..Len(gdt) : used[m] = 1
    /\ \A pi \in Permutations(1..Len(gdt)) : ComputeG(Reordered(gdt, pi)) = G

C5_Witness ==
  /\ gpc = "done" /\ Len(gdt) = 3
  /\ gdt[1].wid = gdt[3].wid /\ gdt[1].wid # gdt[2].wid
  /\ \E a, b \in 1..Len(G) : a # b /\ G[a][b] # 0

\* ------------------------------------------------------------------------
\* Claims about the standard errors
\* ------------------------------------------------------------------------

\* the positions of the rows of choices_exp1.csv, choices_exp2.csv that are
\* not of a dropped subject
KeptChoice(f) == {m \in 1..Len(f) : f[m].sid \notin Range(files.dropped)}

\* the positions of the rows of decisions_data.dta of a kept worker, without
\* a bonus
KeptEffort ==
  {m \in 1..Len(files.decisions) :
     /\ files.decisions[m].wid \in Range(files.keep)
     /\ files.decisions[m].bonusoffered # 1}

RECURSIVE VecSumOver(_, _, _)
VecSumOver(gs, S, k) ==
  IF S = {} THEN [a \in 1..k |-> 0]
  ELSE LET m == CHOOSE x \in S : TRUE
       IN  VecAdd(gs[m], VecSumOver(gs, S \ {m}, k))

\* the sum, over the identifiers C, of the outer product of the summed
\* gradient of the rows in S of that identifier with itself
RECURSIVE GOver(_, _, _, _, _)
GOver(gs, ids, S, C, k) ==
  IF C = {} THEN Zeros(k)
  ELSE LET c == CHOOSE x \in C : TRUE
           gc == VecSumOver(gs, {m \in S : ids[m] = c}, k)
       IN  MatAdd(Outer(gc, gc), GOver(gs, ids, S, C \ {c}, k))

\* (N-1)/(N-K) * J/(J-1) and G of the rows S of a file
AdjOfRows(ids, S, K) ==
  LET N == Cardinality(S)
      J == Cardinality({ids[m] : m \in S})
  IN  Fin((N - 1) * J, (N - K) * (J - 1))

GOfRows(f, ids, S, K) == GOver(Column(f, "g"), ids, S, {ids[m] : m \in S}, K)

StdErrDone == {"tests", "table", "print", "done"}

\* C6: in each of the three estimations adj is (N-1)/(N-K) * J/(J-1), where N
\* counts the rows left by the filters, K is the length of the estimated
\* parameter vector (5 in the choice notebook, 7 in the effort notebook) and
\* J counts the distinct identifiers in the same filtered rows from which G
\* is computed.
C6_Adjustment ==
  /\ (nb = "choice" /\ pc = "session2") =>
       /\ ns.adj = AdjOfRows(Column(files.exp1, "sid"), KeptChoice(files.exp1), 5)
       /\ ns.grad_contribution =
            GOfRows(files.exp1, Column(files.exp1, "sid"), KeptChoice(files.exp1), 5)
  /\ (nb = "choice" /\ pc \in StdErrDone) =>
       /\ ns.adj = AdjOfRows(Column(files.exp2, "sid"), KeptChoice(files.exp2), 5)
       /\ ns.grad_contribution2 =
            GOfRows(files.exp2, Column(files.exp2, "sid"), KeptChoice(files.exp2), 5)
  /\ (nb = "effort" /\ pc \in StdErrDone) =>
       /\ ns.adj = AdjOfRows(Column(files.decisions, "wid"), KeptEffort, 7)
       /\ ns.grad_contribution =
            GOfRows(files.decisions, Column(files.decisions, "wid"), KeptEffort, 7)

C6_Witness ==
  /\ nb = "choice" /\ pc = "print"
  /\ Len(ns.dt1) < Len(files.exp1) /\ Len(ns.dt2) < Len(files.exp2)
  /\ Len(ns.dt1) # Len(ns.dt2)
  /\ VLt(One, ns.adj)

\* C7 as stated: with a single cluster in the filtered data the run does not
\* divide J by a zero J - 1, and writes no table of standard errors.
C7_SingleClusterGuarded ==
  /\ ~(err.type = "ZeroDivisionError" /\ err.at = "J-1")
  /\ (Len(csv) > 0 /\ nb = "choice") =>
       /\ Cardinality(Range(Column(ns.dt1, "sid"))) > 1
       /\ Cardinality(Range(Column(ns.dt2, "sid"))) > 1
  /\ (Len(csv) > 0 /\ nb = "effort") =>
       Cardinality(Range(Column(ns.dt, "wid"))) > 1

\* C8 as stated: with more clusters than one and the number of parameters
\* fixed, the adjustment comes as near to 1 as the factor (N-1)/(N-K) does:
\* within 1/Tol of 1 from N = K + Tol * (K - 1) on.
C8_TendsToOne ==
  (aK > 0 /\ aN >= aK + Tol * (aK - 1)) => VLe(VSub(aAdj, One), Fin(1, Tol))

\* C8 as amended: the adjustment exceeds J/(J-1), falls with every further
\* observation, and is within J/(J-1) * 1/Tol of J/(J-1) from
\* N = K + Tol * (K - 1) on: its limit is J/(J-1), not 1.
C8_TendsToClusterFactor ==
  aK > 0 =>
    /\ VLt(Fin(aJ, aJ - 1), aAdj)
    /\ aN > aK + 1 => VLt(aAdj, aPrev)
    /\ aN >= aK + Tol * (aK - 1) =>
         VLe(VSub(aAdj, Fin(aJ, aJ - 1)), VMul(Fin(aJ, aJ - 1), Fin(1, Tol)))

C8_Witness ==
  /\ aK = 7 /\ aJ = 2 /\ aN >= aK + Tol * (aK - 1)
  /\ VLt(Int2V(2), aAdj) /\ VLt(aAdj, aPrev)

\* C9: in both sessions of the choice notebook the standard error reported
\* for sigma is sigma times the standard error of v, where sigma = exp(v) and
\* v is the last element of the estimate; it is not negative; the other four
\* standard errors are the square roots of the diagonal of the sandwich
\* variance.
C9_DeltaMethod ==
  /\ ns.se_s1 # Null =>
       /\ ns.se_s1[5] = VMul(VExp(Int2V(ns.res_s1[5])), VSqrt(ns.varcov_s1[5][5]))
       /\ VLe(Zero, ns.se_s1[5])
       /\ \A a \in 1..4 : ns.se_s1[a] = VSqrt(ns.varcov_s1[a][a])
  /\ ns.se_s2 # Null =>
       /\ ns.se_s2[5] = VMul(VExp(Int2V(ns.res_s2[5])), VSqrt(ns.varcov_s2[5][5]))
       /\ VLe(Zero, ns.se_s2[5])
       /\ \A a \in 1..4 : ns.se_s2[a] = VSqrt(ns.varcov_s2[a][a])

C9_Witness ==
  /\ ns.se_s1 # Null /\ ns.se_s2 # Null
  /\ VLt(Zero, ns.se_s1[5]) /\ ns.se_s1[5] # VSqrt(ns.varcov_s1[5][5])
  /\ VLt(Zero, ns.se_s2[5]) /\ ns.se_s2[5] # VSqrt(ns.varcov_s2[5][5])
  /\ ns.res_s1[5] # ns.res_s2[5]

\* C10 as stated: when an optimizer reports that it did not converge, the run
\* does not go on to compute standard errors from sol.x and to write the
\* table.
C10_NonConvergenceSurfaced ==
  /\ (ns.se_s1 # Null \/ ns.se_cluster # Null) => ns.sol.success
  /\ ns.se_s2 # Null => ns.sol2.success
  /\ Len(csv) > 0 => (ns.sol.success /\ (nb = "choice" => ns.sol2.success))

\* ------------------------------------------------------------------------
\* C13: the row filters keep exactly the allowed rows, in the order of the
\* file: in the discrete-choice notebook the rows of both sessions whose sid
\* is not in the one dropped-subjects list; in the effort notebook the rows
\* whose wid is in the keep list and whose bonusoffered is not 1.  Filtering
\* the kept rows again changes nothing.

\* the columns of a row that come from the file
FileColumns(r) ==
  [wid |-> r.wid, bonusoffered |-> r.bonusoffered, workdone1 |-> r.workdone1,
   effort |-> r.effort, wage |-> r.wage, g |-> r.g]

AllowedChoice(df) ==
  LET Allowed(r) == r.sid \notin Range(files.dropped)
  IN  SelectSeq(df, Allowed)

AllowedEffort(df) ==
  LET Allowed(r) == r.wid \in Range(files.keep) /\ r.bonusoffered # 1
  IN  SelectSeq(df, Allowed)

C13_FilterKeepsAllowedRows ==
  /\ (nb = "choice" /\ pc \notin {"load", "off"}) =>
       /\ ns.data_drop = files.dropped
       /\ ns.dt1 = AllowedChoice(files.exp1)
       /\ ns.dt2 = AllowedChoice(files.exp2)
       /\ AllowedChoice(ns.dt1) = ns.dt1
       /\ AllowedChoice(ns.dt2) = ns.dt2
  /\ (nb = "effort" /\ pc \notin {"load", "features", "off"}) =>
       /\ [m \in 1..Len(ns.dt) |-> FileColumns(ns.dt[m])]
            = [m \in 1..Len(AllowedEffort(files.decisions)) |->
                 FileColumns(AllowedEffort(files.decisions)[m])]
       /\ AllowedEffort(ns.dt) = ns.dt

\* both filters of the effort notebook have removed rows and rows are left
C13_Witness ==
  /\ nb = "effort" /\ pc = "estimate"
  /\ \E m \in 1..Len(files.decisions) :
       files.decisions[m].wid \notin Range(files.keep)
  /\ \E m \in 1..Len(files.decisions) :
       /\ files.decisions[m].wid \in Range(files.keep)
       /\ files.decisions[m].bonusoffered = 1
  /\ Len(ns.dt) > 1

\* ------------------------------------------------------------------------
\* the cells after the test cell
TestsDone == {"table", "print", "done"}

InUnit(p) == VLe(Zero, p) /\ VLe(p, One)

\* the pairs (|z|, p-value) of the z-tests against a reference that a run has
\* computed, z being (estimate - reference) / standard error
ZTests ==
  IF nb = "choice"
  THEN {[z |-> VAbs(VDiv(VSub(ns.results_s1[a], Zero), ns.se_s1[a])),
         p |-> ns.pvalues_s1[a]] : a \in 1..5}
       \cup {[z |-> VAbs(VDiv(VSub(ns.results_s2[a], Zero), ns.se_s2[a])),
              p |-> ns.pvalues_s2[a]] : a \in 1..5}
  ELSE {[z |-> VAbs(VDiv(VSub(Int2V(ns.res[a]), One), ns.se_cluster[a])),
         p |-> ns.pvalues_1[a]] : a \in 1..3}
       \cup {[z |-> VAbs(VDiv(VSub(Int2V(ns.res[6]), Zero), ns.se_cluster[6])),
              p |-> ns.pvalue_a]}

CrossStat(x1, s1, x2, s2) ==
  LET d == VSub(x1, x2)
  IN  VDiv(IF VLt(d, Zero) THEN VNeg(d) ELSE d,
           VSqrt(VAdd(VMul(s1, s1), VMul(s2, s2))))

SelectedTerm(p, r) ==
  LET predchoice == PredChoice(p, r)
  IN  CASE r.effort = 10 ->
             VSub(One, NormCdf(VDiv(VSub(predchoice, Int2V(10)), p.sigma)))
        [] r.effort = 110 ->
             NormCdf(VDiv(VSub(predchoice, Int2V(110)), p.sigma))
        [] OTHER -> NormPdf(Int2V(r.effort), predchoice, p.sigma)

\* C16: in negloglike each observation contributes exactly one of three
\* terms: the normal density at the observed effort when the effort is
\* neither 10 nor 110, 1 - Phi((predicted - 10)/sigma) when it is 10 and
\* Phi((predicted - 110)/sigma) when it is 110; the two censoring indicators
\* are never both 1 for one observation.
C16_OneTermPerObservation ==
  (fn = "negloglike" /\ lpc # "start") =>
    \A i \in 1..Len(rows) :
      /\ ind_effort10(rows[i]) + ind_effort110(rows[i]) \in {0, 1}
      /\ prob0[i] = SelectedTerm(par, rows[i])

\* a batch of an observation censored at 10 and one censored at 110 whose
\* terms differ from each other and from the density
C16_Witness ==
  /\ fn = "negloglike" /\ lpc = "done" /\ Len(rows) = 2
  /\ rows[1].effort = 10 /\ rows[2].effort = 110
  /\ prob0[1].c = "fin" /\ prob0[2].c = "fin"
  /\ prob0[1] # prob0[2]
  /\ prob0[1] # NormPdf(Int2V(10), PredChoice(par, rows[1]), par.sigma)

\* ------------------------------------------------------------------------
\* uleft and uright of one observation
ULeft(v, r) == Utility(VExp(Int2V(v[Len(v)])), Dot(r.ix, SubSeq(v, 1, Len(v) - 1)),
                       r.self_x, r.other_x)

URight(v, r) == Utility(VExp(Int2V(v[Len(v)])), Dot(r.iy, SubSeq(v, 1, Len(v) - 1)),
                        r.self_y, r.other_y)

\* the probability that the code computes for the allocation of utility u
\* against the allocation of utility w
ChoiceProb(u, w) == VDiv(VExp(u), VAdd(VExp(u), VExp(w)))

\* the constants added to both utilities
Shifts == {Int2V(-1), Int2V(1)}

\* C17: in loglike_dummy the likelihood of an observation is the probability
\* of the allocation chosen, P(X) when choice_x = 1 and P(Y) when choice_x =
\* 0; P(X) + P(Y) = 1; P(X) depends on uleft - uright only, so that adding
\* the same constant to both utilities leaves it unchanged and equal
\* utilities give 1/2.
C17_ChoiceProbability ==
  (fn = "loglike_dummy" /\ lpc = "done") =>
    \A i \in 1..Len(rows) :
      LET u == ULeft(par, rows[i])
          w == URight(par, rows[i])
      IN  /\ prob0[i] = IF rows[i].choice_x = 1 THEN ChoiceProb(u, w)
                        ELSE ChoiceProb(w, u)
          /\ VAdd(ChoiceProb(u, w), ChoiceProb(w, u)) = One
          /\ \A c \in Shifts : ChoiceProb(VAdd(u, c), VAdd(w, c)) = ChoiceProb(u, w)
          /\ u = w => ChoiceProb(u, w) = Fin(1, 2)

\* ------------------------------------------------------------------------
\* the loaded dataset is what it was before the step
DatasetUnchanged == ns.dt1' = ns.dt1 /\ ns.dt2' = ns.dt2 /\ ns.dt' = ns.dt

\* C18: the observation records are immutable once loaded: after the load
\* cell has read and filtered the data no later cell adds, removes or changes
\* a field or the index of the dataset.
C18_ImmutableOnceLoaded ==
  [][pc \notin {"load", "off"} => DatasetUnchanged]_vars

\* what the feature cell of the effort notebook does to dt: the rows with a
\* bonus go, the rows left keep the columns of the file, get the columns pb,
\* ind_effort10 and ind_effort110 and the index 0, 1, 2, ...
FeatureCellChange ==
  LET NoBonus(r) == r.bonusoffered # 1
      kept == SelectSeq(ns.dt, NoBonus)
  IN  /\ Len(ns.dt') = Len(kept)
      /\ \A m \in 1..Len(kept) :
           /\ FileColumns(ns.dt'[m]) = FileColumns(kept[m])
           /\ ns.dt'[m].label = m - 1
           /\ DOMAIN ns.dt'[m] = DOMAIN kept[m] \cup {"pb", "ind_effort10", "ind_effort110"}
           /\ ns.dt'[m].pb = kept[m].workdone1 \div 10
           /\ ns.dt'[m].ind_effort10 = (IF kept[m].effort = 10 THEN 1 ELSE 0)
           /\ ns.dt'[m].ind_effort110 = (IF kept[m].effort = 110 THEN 1 ELSE 0)

\* C18 as it holds: the feature cell of the effort notebook changes the
\* loaded dataset in the way of FeatureCellChange; every other cell after the
\* load cell, and every cell after the load cell of the choice notebook,
\* leaves the dataset as it is.
C18_ImmutableAfterFeatures ==
  [][/\ (pc \notin {"load", "off", "features"}) => DatasetUnchanged
     /\ (nb = "effort" /\ pc = "features") => FeatureCellChange]_vars

\* an effort run has ended on a dataset from which the feature cell took the
\* rows with a bonus, so that the index differs from that of the file
C18_Witness ==
  /\ nb = "effort" /\ pc = "done"
  /\ \E m \in 1..Len(ns.dt) : ns.dt[m].pb = 1
  /\ \E m \in 1..Len(ns.dt) :
       \A k \in 1..Len(files.decisions) :
         FileColumns(files.decisions[k]) = FileColumns(ns.dt[m])
           => files.decisions[k].label # ns.dt[m].label

\* ------------------------------------------------------------------------
\* the names bound by the statements before the i-th of the log
BoundBefore(i) == UNION {log[k].binds : k \in 1..(i - 1)}

\* the estimates, standard errors and test statistics of a notebook
Statistics ==
  IF nb = "choice"
  THEN {"results_s1", "se_s1", "zvalues_s1", "pvalues_s1", "results_s2", "se_s2",
        "zvalues_s2", "pvalues_s2", "zvalues_s1s2", "pvalues_s1s2"}
  ELSE {"res", "se_cluster", "zvalues_1", "pvalues_1", "zvalue_a", "pvalue_a"}

\* the statements of the log that write the output file
Writes == {i \in 1..Len(log) : log[i].lines \in {<<406, 406>>, <<1057, 1057>>}}

\* C19: Table_1 is built only after all the point estimates, standard errors
\* and test statistics exist; it is written to the output file exactly once,
\* at the end of the run; no later step changes Table_1 or the file.
C19_WriteOnceTable ==
  /\ [](/\ \A i \in 1..Len(log) :
             "Table_1" \in log[i].binds => Statistics \subseteq BoundBefore(i)
        /\ \A i \in Writes : "Table_1" \in BoundBefore(i)
        /\ Cardinality(Writes) = Len(csv)
        /\ Len(csv) = (IF pc \in {"print", "done"} THEN 1 ELSE 0)
        /\ Len(csv) = 1 => csv[1] = ns.Table_1)
  /\ [][Len(csv) = 1 => (csv' = csv /\ ns.Table_1' = ns.Table_1)]_vars

\* the print cell has run after the one write of the table
C19_Witness ==
  /\ nb = "choice" /\ pc = "done" /\ Len(out) > 0
  /\ Len(csv) = 1 /\ csv[1] = ns.Table_1
  /\ csv[1].pval_s1s2 = Round3All(ns.pvalues_s1s2)

\* ------------------------------------------------------------------------
\* the place of a stage in load, transform, optimize, differentiate, report;
\* imports and definitions belong to no stage
StageRank(stage) ==
  CASE stage = "load" -> 1
    [] stage = "transform" -> 2
    [] stage = "optimize" -> 3
    [] stage = "differentiate" -> 4
    [] stage = "report" -> 5
    [] OTHER -> 0

\* the statements run in the order of the source, none twice, and each reads
\* only names that an earlier statement has bound
TopToBottom ==
  /\ \A i \in 1..(Len(log) - 1) : log[i].lines[2] < log[i + 1].lines[1]
  /\ \A i \in 1..Len(log) :
       /\ log[i].lines[1] <= log[i].lines[2]
       /\ log[i].reads \subseteq BoundBefore(i)

\* the result of the optimizer is bound before the Hessian and G are
\* evaluated at it, and gradfun is bound before gradcontr is called
ResultBeforeDerivatives ==
  \A i \in 1..Len(log) :
    /\ log[i].binds \cap {"inv_hess", "grad_contribution"} # {}
         => (IF nb = "choice" THEN "res_s1" ELSE "res") \in BoundBefore(i)
    /\ "hess_inv" \in log[i].binds => "res" \in BoundBefore(i)
    /\ log[i].binds \cap {"inv_hess2", "grad_contribution2"} # {}
         => "res_s2" \in BoundBefore(i)
    /\ "gradcontr" \in log[i].reads => "gradfun" \in BoundBefore(i)

\* the statements of the estimations in E pass through the stages in order
StagesInOrder(E) ==
  \A i \in 1..Len(log), k \in 1..Len(log) :
    (/\ i < k /\ log[i].on \in E /\ log[k].on \in E
     /\ StageRank(log[i].stage) > 0 /\ StageRank(log[k].stage) > 0)
      => StageRank(log[i].stage) <= StageRank(log[k].stage)

\* C20: a top-to-bottom run of each notebook is one pass in the order load,
\* transform, optimize, differentiate, report, in which every stage reads
\* only values bound by an earlier stage; the result of the optimizer is
\* bound before the Hessian and G are evaluated at it, and gradfun is bound
\* before gradcontr is first called.
C20_OnePass ==
  /\ TopToBottom
  /\ ResultBeforeDerivatives
  /\ StagesInOrder({"all", "s1", "s2"})

\* C20 as it holds: the same with the order of the stages taken for each
\* estimation: the effort notebook is one pass through the five stages; the
\* choice notebook loads once, passes through transform, optimize and
\* differentiate for session 1 and then again for session 2, and reports
\* once.
C20_OnePassPerEstimation ==
  /\ TopToBottom
  /\ ResultBeforeDerivatives
  /\ StagesInOrder({"all", "s1"})
  /\ StagesInOrder({"all", "s2"})
  /\ \A i \in 1..Len(log), k \in 1..Len(log) :
       (log[i].on = "s1" /\ log[k].on = "s2") => i < k

\* a choice run has ended: the features of session 2 were built after the
\* derivatives of session 1
C20_Witness ==
  /\ nb = "choice" /\ pc = "done"
  /\ \E i \in 1..Len(log), k \in 1..Len(log) :
       /\ i < k /\ log[i].stage = "differentiate" /\ log[k].stage = "transform"
       /\ "grad_contribution" \in log[i].binds

\* ------------------------------------------------------------------------
\* a value of a column the estimation reads is missing in the input
MissingValue ==
  \/ /\ nb = "choice"
     /\ \E m \in DOMAIN files.exp1 : files.exp1[m].choice_x.c = "nan"
  \/ /\ nb = "effort"
     /\ \E m \in DOMAIN files.decisions : files.decisions[m].wage.c = "nan"

\* C12: when a required column of the input holds a missing or malformed
\* value the run fails with an error before the optimizer is first called:
\* no likelihood is evaluated, nothing is estimated and no table is written
\* from such data.
C12_FailsOnMissingValue ==
  MissingValue =>
    /\ pc \notin {"load", "off"} => (pc = "error" /\ err # NoError)
    /\ \A i \in 1..Len(log) : log[i].stage # "optimize" /\ "opt" \notin log[i].reads
    /\ memo.minimize = {}
    /\ csv = <<>>

\* ------------------------------------------------------------------------
\* Two runs of a notebook over the same files
\* ------------------------------------------------------------------------

\* the starting vector and the point estimates of the run
StartingGuess == IF nb = "choice" THEN ns.v0 ELSE ns.par_init

PointEstimates == IF nb = "choice" THEN <<ns.res_s1, ns.res_s2>> ELSE <<ns.res>>

TwiceInit ==
  /\ nb \in {"choice", "effort"}
  /\ pc = "load"
  /\ err = NoError
  /\ \/ /\ nb = "choice"
        /\ files = [exp1 |-> ChoiceFile(MaxChoiceRows, 2),
                    exp2 |-> ChoiceFile(MaxChoiceRows, 3), dropped |-> <<3>>,
                    decisions |-> <<>>, keep |-> <<>>]
     \/ /\ nb = "effort"
        /\ \E k \in KeepLists :
             files = [exp1 |-> <<>>, exp2 |-> <<>>, dropped |-> <<>>,
                      decisions |-> EffortFile(MaxEffortRows, 2), keep |-> k]
  /\ ns = Kernel(nb)
  /\ log = Imports(nb)
  /\ csv = <<>> /\ out = <<>> /\ memo = NoMemo /\ run = 1 /\ first = NoFirst
  /\ byhand = 0 /\ iterations = 0
  /\ LikeOff /\ GOff /\ AdjOff

\* the kernel is restarted after a complete run and the notebook is run
\* again from its first cell over the same files; the libraries are the
\* same, the names bound by the first run are gone
Rerun ==
  /\ run = 1 /\ pc = "done"
  /\ run' = 2
  /\ first' = [v0 |-> StartingGuess, estimates |-> PointEstimates,
               Table_1 |-> ns.Table_1]
  /\ ns' = Kernel(nb)
  /\ log' = Imports(nb)
  /\ out' = <<>>
  /\ pc' = "load"
  /\ UNCHANGED <<nb, err, files, csv, memo, byhand, iterations, likeVars, gVars, adjVars>>

TwiceNext ==
  \/ ChoiceLoad
  \/ ChoiceIndicators
  \/ ChoiceDefLoglike
  \/ ChoiceEstimate
  \/ ChoiceDefCongrad
  \/ ChoiceStdErr
  \/ ChoiceSession2
  \/ ChoiceTests
  \/ ChoiceTable
  \/ ChoicePrint
  \/ EffortLoad
  \/ EffortFeatures
  \/ EffortDefNegloglike
  \/ EffortEstimate
  \/ EffortDefGradcontr
  \/ EffortStdErr
  \/ EffortTests
  \/ EffortTable
  \/ EffortPrint
  \/ Rerun

SpecTwice == TwiceInit /\ [][TwiceNext]_vars

\* C11: each notebook is deterministic in its inputs: the second of two
\* complete runs over the same files starts the optimizer from the same
\* guess as the first and ends with the same point estimates and the same
\* table.
C11_Deterministic ==
  run = 2 =>
    /\ StartingGuess # Null => StartingGuess = first.v0
    /\ pc = "done" => (PointEstimates = first.estimates /\ ns.Table_1 = first.Table_1)

\* ------------------------------------------------------------------------
\* the gradients and the identifiers of the rows of a frame
Gradients(dt) == Column(dt, "g")

Identifiers(dt) == Column(dt, "wid")

Negated(dt) ==
  [m \in 1..Len(dt) |-> [dt[m] EXCEPT !.g = [a \in 1..Len(dt[m].g) |-> -dt[m].g[a]]]]

\* C26: G is unchanged when the gradient of every observation is negated:
\* the G that congradloglike computes from the gradients of the
\* log-likelihood is the G of the gradients of the negative log-likelihood,
\* and likewise for gradcontr.
C26_SignOfGradients ==
  gpc = "done" => ComputeG(Negated(gdt)) = G

\* congradloglike has returned a G with a negative entry for gradients that
\* are not all zero
C26_Witness ==
  /\ gpc = "done" /\ gfn = "congradloglike" /\ Len(gdt) > 1
  /\ \E m \in 1..Len(gdt) : Negated(gdt)[m].g # gdt[m].g
  /\ \E a, b \in 1..Len(G) : G[a][b] < 0

\* ------------------------------------------------------------------------
\* the cells after the feature cell of the effort notebook
AfterFeatures == {"def_negloglike", "estimate", "def_gradcontr", "stderr"} \cup StdErrDone

\* C24: gradcontr processes every row of the filtered effort dataset exactly
\* once and pairs each gradient with its own subject: the index is 0..N-1
\* from the feature cell on, so the lookups dt[column][j] for j = 0..N-1 each
\* hit one retained row, the j-th of dt, and G is computed from the gradient
\* of every retained row under the wid of that row.
C24_RowsAligned ==
  (nb = "effort" /\ pc \in AfterFeatures) =>
    LET N == Len(ns.dt)
        kept == SortedSeq(KeptEffort)
    IN  /\ N = Len(kept)
        /\ \A m \in 1..N : ns.dt[m].label = m - 1
        /\ \A j \in 0..(N - 1) :
             /\ Cardinality({m \in 1..N : ns.dt[m].label = j}) = 1
             /\ RowAt(ns.dt, j) = ns.dt[j + 1]
             /\ ns.dt[j + 1].wid = files.decisions[kept[j + 1]].wid
             /\ gradfun(RowAt(ns.dt, j)) = files.decisions[kept[j + 1]].g
        /\ pc \in StdErrDone =>
             ns.grad_contribution =
               GOver([m \in 1..N |-> gradfun(ns.dt[m])], Column(ns.dt, "wid"),
                     1..N, Range(Column(ns.dt, "wid")), Len(ns.res))

\* G was computed from rows whose place in dt is not their place in the
\* file, for more subjects than one
C24_Witness ==
  /\ nb = "effort" /\ pc \in StdErrDone
  /\ Len(ns.dt) < Len(files.decisions)
  /\ \E m \in 1..Len(ns.dt) : SortedSeq(KeptEffort)[m] # m
  /\ Cardinality(Range(Column(ns.dt, "wid"))) > 1
  /\ \E a, b \in 1..Len(ns.grad_contribution) : a # b /\ ns.grad_contribution[a][b] # 0

\* ------------------------------------------------------------------------
\* the objective on the i-th observation taken as a batch of one row
OneRow(i) ==
  IF fn = "negloglike" THEN negloglike(par, <<rows[i]>>)
  ELSE loglike_dummy(par, <<rows[i]>>)

\* C25: the negative log-likelihood of a batch is the sum of the negative
\* log-likelihoods of its observations taken as batches of one row, the
\* clamp being applied to each element, for negloglike and for
\* loglike_dummy.
C25_Additive ==
  lpc = "done" => ret = VSum([i \in 1..Len(rows) |-> OneRow(i)])

\* negloglike has returned a number for two rows of which one was clamped
\* and the other was not, neither contributing zero
C25_Witness ==
  /\ lpc = "done" /\ fn = "negloglike" /\ Len(rows) = 2 /\ IsFin(ret)
  /\ Len(index_p0) + Len(index_p1) = 1
  /\ OneRow(1) # Zero /\ OneRow(2) # Zero /\ OneRow(1) # OneRow(2)

\* ------------------------------------------------------------------------
\* A session of the effort notebook: a run from top to bottom, then cells
\* executed one by one in the same kernel
\* ------------------------------------------------------------------------

SessionInit == RunInit /\ nb = "effort"

\* the import cell, lines 722-726, executed again: its names are bound anew
ImportCellAgain ==
  /\ nb = "effort" /\ pc = "done" /\ byhand < MaxByHand
  /\ ns' = [ns EXCEPT !.hessian = Imported("autograd.hessian")]
  /\ log' = log \o Imports(nb)
  /\ err' = NoError
  /\ byhand' = byhand + 1
  /\ UNCHANGED <<nb, pc, files, csv, out, memo, run, first, iterations, likeVars, gVars, adjVars>>

\* the cell of lines 984-996 executed again; an exception leaves the kernel
\* as the failing statement found it
StdErrCellAgain ==
  /\ nb = "effort" /\ pc = "done" /\ byhand < MaxByHand
  /\ StdErrCell("done", "done")
  /\ byhand' = byhand + 1
  /\ UNCHANGED <<nb, files, csv, out, run, first, iterations, likeVars, gVars, adjVars>>

SessionNext ==
  \/ EffortLoad
  \/ EffortFeatures
  \/ EffortDefNegloglike
  \/ EffortEstimate
  \/ EffortDefGradcontr
  \/ EffortStdErr
  \/ EffortTests
  \/ EffortTable
  \/ EffortPrint
  \/ ImportCellAgain
  \/ StdErrCellAgain

SpecSession == SessionInit /\ [][SessionNext]_vars

\* a step that executes the cell of lines 984-996 after the run has ended
ExecutesStdErrAgain ==
  /\ pc = "done" /\ byhand' = byhand + 1
  /\ log'[Len(log) + 1].lines[1] = 984

\* the cell raised TypeError and left the standard errors as they were
FailsOnArray ==
  /\ err'.type = "TypeError"
  /\ ~ns'.hessian.callable
  /\ ns'.se_cluster = ns.se_cluster /\ ns'.hess_inv = ns.hess_inv
  /\ ns'.grad_contribution = ns.grad_contribution

\* C27: in the effort notebook the standard-error cell can be executed only
\* once in a session: its first execution binds the name hessian to the
\* Hessian matrix, and every later execution of the cell calls the matrix,
\* fails and cannot compute the standard errors again.
C27_OnlyOnce ==
  /\ [](pc \in StdErrDone /\ byhand = 0 => ~ns.hessian.callable)
  /\ [][ExecutesStdErrAgain => FailsOnArray]_vars

\* the last statement executed that binds the name hessian
LastBinding ==
  CHOOSE i \in 1..Len(log) :
    /\ "hessian" \in log[i].binds
    /\ \A k \in (i + 1)..Len(log) : "hessian" \notin log[k].binds

\* C27 as it holds: an execution of the standard-error cell binds the name
\* hessian to the Hessian matrix, and a later execution of the cell fails
\* with TypeError, computing nothing, for as long as the import cell has not
\* been executed again; after the import cell the cell computes the same
\* standard errors once more.
C27_OnceUntilImported ==
  /\ [](pc \in AfterFeatures => (ns.hessian.callable <=> log[LastBinding].stage = "import"))
  /\ [](pc \in StdErrDone /\ byhand = 0 => ~ns.hessian.callable)
  /\ [][ExecutesStdErrAgain =>
          IF ns.hessian.callable
          THEN /\ err'.type # "TypeError"
               /\ ~ns'.hessian.callable
               /\ MatMul(ns'.hessian.value, ns'.hess_inv) = Identity(Len(ns.res))
               /\ ns'.se_cluster = ns.se_cluster
          ELSE FailsOnArray]_vars

\* the cell has failed on the matrix, the import cell was executed again and
\* the cell has then computed the standard errors once more
C27_Witness ==
  /\ nb = "effort" /\ pc = "done" /\ err = NoError /\ byhand = MaxByHand
  /\ ~ns.hessian.callable
  /\ \E i \in 1..Len(log), k \in 1..Len(log) :
       /\ i < k /\ k < Len(log)
       /\ log[i].lines = <<984, 984>>
       /\ log[k].stage = "import"
       /\ log[k + 1].lines = <<984, 986>>

\* ------------------------------------------------------------------------
\* the statements executed so far that bind the name v0
DrawsOfV0 == {i \in 1..Len(log) : "v0" \in log[i].binds}

\* the calls of the optimizer on the rows data that returned val
CallsOn(data, val) == {e \in memo.minimize : e.data = data /\ e.val = val}

\* C28: the optimisation of session 2 starts from the vector v0 from which
\* the optimisation of session 1 started: v0 is drawn once, from the
\* session-1 data and never from the session-2 data, and neither the
\* optimizer call of session 1 nor the computation of the standard errors
\* changes it.
C28_SameStart ==
  /\ [](nb = "choice" =>
          /\ Cardinality(DrawsOfV0) <= 1
          /\ \A i \in DrawsOfV0 :
               /\ "dt1" \in log[i].reads
               /\ log[i].reads \cap ({"dt2"} \cup LoglikeArgs2) \subseteq {"np"}
          /\ \A i \in 1..Len(log) :
               "sol2" \in log[i].binds => ("v0" \in log[i].reads /\ DrawsOfV0 # {})
          /\ pc \in {"def_congrad", "stderr", "session2"} =>
               \E e \in CallsOn(ns.dt1, ns.sol) : e.at = ns.v0
          /\ pc \in StdErrDone =>
               /\ \E e \in CallsOn(ns.dt1, ns.sol) : e.at = ns.v0
               /\ \E e \in CallsOn(ns.dt2, ns.sol2) : e.at = ns.v0)
  /\ [][(nb = "choice" /\ ns.v0 # Null) => ns.v0' = ns.v0]_vars

\* both sessions were estimated on different rows and from the one start
\* the optimizer ended at different estimates
C28_Witness ==
  /\ nb = "choice" /\ pc \in StdErrDone
  /\ ns.dt1 # ns.dt2 /\ ns.res_s1 # ns.res_s2
  /\ Cardinality(memo.minimize) = 2
  /\ \A e \in memo.minimize : e.at = ns.v0

\* ------------------------------------------------------------------------
\* A run of the effort notebook with the iterations of the optimizer
\* ------------------------------------------------------------------------

LiveInit == RunInit /\ nb = "effort"

\* lines 903-912: par_init and mle_args are bound and opt.minimize is called
NelderMeadStart ==
  /\ nb = "effort" /\ pc = "estimate"
  /\ iterations' = 0
  /\ pc' = "minimize"
  /\ UNCHANGED <<nb, err, files, ns, csv, log, out, memo, run, first, byhand>>
  /\ UNCHANGED <<likeVars, gVars, adjVars>>

\* line 912, one pass of the loop of the Nelder-Mead method: the loop is left
\* when the simplex has converged, and otherwise one more iteration is
\* counted; negloglike is evaluated on the whole of mle_args a bounded number
\* of times
NelderMeadIterate ==
  /\ nb = "effort" /\ pc = "minimize" /\ iterations < maxiter
  /\ \/ pc' = "converged" /\ iterations' = iterations
     \/ pc' = "minimize" /\ iterations' = iterations + 1
  /\ UNCHANGED <<nb, err, files, ns, csv, log, out, memo, run, first, byhand>>
  /\ UNCHANGED <<likeVars, gVars, adjVars>>

\* lines 912-913: opt.minimize returns, with success when the loop was left
\* before the cap on the iterations
NelderMeadReturn ==
  /\ nb = "effort"
  /\ pc = "converged" \/ (pc = "minimize" /\ iterations >= maxiter)
  /\ \E x \in EffortEstimates : Minimized(x, iterations < maxiter)
  /\ UNCHANGED <<nb, err, files, csv, out, run, first, byhand, iterations>>
  /\ UNCHANGED <<likeVars, gVars, adjVars>>

LiveNext ==
  \/ EffortLoad
  \/ EffortFeatures
  \/ EffortDefNegloglike
  \/ NelderMeadStart
  \/ NelderMeadIterate
  \/ NelderMeadReturn
  \/ EffortDefGradcontr
  \/ EffortStdErr
  \/ EffortTests
  \/ EffortTable
  \/ EffortPrint

\* the positions of a run of the effort notebook
LivePositions ==
  {"load", "features", "def_negloglike", "estimate", "minimize", "converged",
   "def_gradcontr", "stderr", "tests", "table", "print", "done", "error"}

\* a statement is executed: every statement of LiveNext takes the run to
\* another position or counts an iteration, and one is next at every
\* position but the last and the one of an exception
Executes ==
  /\ nb = "effort" /\ pc \notin {"done", "error"}
  /\ pc' \in LivePositions /\ iterations' \in 0..maxiter
  /\ <<pc', iterations'>> # <<pc, iterations>>

\* the kernel executes the statement that is next for as long as there is one
SpecLive == LiveInit /\ [][LiveNext]_vars /\ WF_<<pc, iterations>>(Executes)

\* the optimizer has returned
Returned == pc \in {"def_gradcontr", "stderr"} \cup StdErrDone \cup {"error"}

\* the optimizer stops, on convergence or at the cap on its iterations, and
\* the cell of the standard errors is then executed
OptimizerStops ==
  /\ [](iterations <= maxiter)
  /\ [](Returned => (ns.sol.success <=> iterations < maxiter))
  /\ (pc = "estimate") ~> (pc = "stderr")
  /\ (pc = "stderr") ~> (pc \in {"tests", "error"})

\* C21: the optimisation always terminates: the Nelder-Mead run of the
\* effort model stops on convergence or after at most the cap on its
\* iterations, and the run then goes on to the differentiation and the
\* reporting, waiting on nothing else.
C21_OptimizerTerminates ==
  /\ OptimizerStops
  /\ (pc = "estimate") ~> (pc \in TestsDone)

====
